---- MODULE Spec2Model ----
(***************************************************************************)
(* Rules-based filter engine: lexer -> Pratt parser -> tree-walking        *)
(* evaluator.  Strings are sequences of one-character strings; a token's   *)
(* literal and an identifier's name are such sequences.                    *)
(***************************************************************************)
EXTENDS Integers, Sequences, FiniteSets, TLC

VARIABLES input, origin, pc, ast, error, parser, data, details, result, heap, returned,
          evaluators, lexer, tokens, rules, ruleObjects, astCache, calls

\* what a RuleService and its repository hold, and the calls made on them
service == <<rules, ruleObjects, astCache, calls>>

vars == <<input, origin, pc, ast, error, parser, data, details, result, heap, returned,
          evaluators, lexer, tokens, service>>

(***************************************************************************)
(* Bounds of the model                                                     *)
(***************************************************************************)
\* longest source made of single lexemes
MaxTokens == 3
\* longest source made of whole comparisons, logical operators and parentheses
MaxItems == 5
\* most calls of evaluate on one Evaluator
MaxCalls == 2
\* most Evaluators made on one tree, one per caller
MaxEvaluators == 2
\* how far past the end of the source a Lexer's position is followed
MaxPastEnd == 3
MaxPieces == 3
MaxRequests == 3

(***************************************************************************)
(* domain/token.ts : TokenType and Token                                   *)
(***************************************************************************)
EOF == "EOF"
ILLEGAL == "ILLEGAL"
IDENTIFIER == "IDENTIFIER"
NUMBER == "NUMBER"
STRING_T == "STRING"
EQUAL == "="
NOT_EQUAL == "!="
GREATER == ">"
LESS == "<"
GREATER_EQUAL == ">="
LESS_EQUAL == "<="
AND == "AND"
OR == "OR"
LEFT_PAREN == "("
RIGHT_PAREN == ")"

TokenType == {EOF, ILLEGAL, IDENTIFIER, NUMBER, STRING_T, EQUAL, NOT_EQUAL, GREATER,
              LESS, GREATER_EQUAL, LESS_EQUAL, AND, OR, LEFT_PAREN, RIGHT_PAREN}

Token(type, literal, position) ==
  [type |-> type, literal |-> literal, position |-> position]

(***************************************************************************)
(* JavaScript values the code handles                                      *)
(***************************************************************************)
\* the value null of `ch: string | null` (no character is the empty string)
NullCh == ""

\* Names every plain object inherits from Object.prototype: `obj[name]` yields a
\* function for them although the object has no such key of its own.
ObjectPrototypeKeys ==
  { <<"c","o","n","s","t","r","u","c","t","o","r">>,
    <<"t","o","S","t","r","i","n","g">>,
    <<"v","a","l","u","e","O","f">>,
    <<"h","a","s","O","w","n","P","r","o","p","e","r","t","y">>,
    <<"i","s","P","r","o","t","o","t","y","p","e","O","f">>,
    <<"t","o","L","o","c","a","l","e","S","t","r","i","n","g">>,
    <<"p","r","o","p","e","r","t","y","I","s","E","n","u","m","e","r","a","b","l","e">> }

\* what `keywords[ident]` yields for such a name: a function object, which is
\* truthy and is none of the TokenType strings
FunctionObject == "[Function]"

Min(x, y) == IF x <= y THEN x ELSE y

\* String.prototype.slice(a, b) for 0 <= a, 0 <= b
Slice(s, a, b) == SubSeq(s, a + 1, Min(b, Len(s)))

(***************************************************************************)
(* parser/lexer.ts                                                         *)
(***************************************************************************)
Letters ==
  {"a","b","c","d","e","f","g","h","i","j","k","l","m","n","o","p","q","r","s","t",
   "u","v","w","x","y","z","A","B","C","D","E","F","G","H","I","J","K","L","M","N",
   "O","P","Q","R","S","T","U","V","W","X","Y","Z"}

Digits == {"0","1","2","3","4","5","6","7","8","9"}

isLetter(ch) == ch \in Letters

isDigit(ch) == ch \in Digits

\* a Lexer object's fields besides the input
readChar(inp, l) ==
  [ ch |-> IF l.readPosition >= Len(inp) THEN NullCh ELSE inp[l.readPosition + 1],
    position |-> l.readPosition,
    readPosition |-> l.readPosition + 1 ]

NewLexer(inp) == readChar(inp, [ch |-> NullCh, position |-> 0, readPosition |-> 0])

peekChar(inp, l) ==
  IF l.readPosition >= Len(inp) THEN NullCh ELSE inp[l.readPosition + 1]

RECURSIVE skipWhitespace(_, _)
skipWhitespace(inp, l) ==
  IF l.ch \in {" ", "\t", "\n", "\r"}
    THEN skipWhitespace(inp, readChar(inp, l))
    ELSE l

RECURSIVE IdentifierEnd(_, _)
IdentifierEnd(inp, l) ==
  IF l.ch # NullCh /\ (isLetter(l.ch) \/ isDigit(l.ch) \/ l.ch = "_")
    THEN IdentifierEnd(inp, readChar(inp, l))
    ELSE l

\* what a read method leaves: the text from `start` to the lexer's position
ReadText(inp, start, l) == [literal |-> Slice(inp, start, l.position), lexer |-> l]

readIdentifier(inp, l) == ReadText(inp, l.position, IdentifierEnd(inp, l))

RECURSIVE DigitsEnd(_, _)
DigitsEnd(inp, l) ==
  IF l.ch # NullCh /\ isDigit(l.ch)
    THEN DigitsEnd(inp, readChar(inp, l))
    ELSE l

\* FractionEnd taking the point whatever follows it
FractionEndWithoutDigit(inp, i) ==
  IF i.ch = "." THEN DigitsEnd(inp, readChar(inp, i)) ELSE i

\* readNumber after the integer part: the fraction, if a digit follows the point
FractionEnd(inp, i) ==
  IF i.ch = "." /\ peekChar(inp, i) # NullCh /\ isDigit(peekChar(inp, i))
    THEN DigitsEnd(inp, readChar(inp, i))
    ELSE i

readNumber(inp, l) == ReadText(inp, l.position, FractionEnd(inp, DigitsEnd(inp, l)))

RECURSIVE StringEnd(_, _)
\* readString's loop, entered with the lexer already moved by its first readChar
StringEnd(inp, n) ==
  IF n.ch = "'" \/ n.ch = NullCh THEN n ELSE StringEnd(inp, readChar(inp, n))

readString(inp, l) == ReadText(inp, l.position + 1, StringEnd(inp, readChar(inp, l)))

lookupIdent(ident) ==
  CASE ident = <<"A","N","D">> -> AND
    [] ident = <<"O","R">> -> OR
    [] ident \in ObjectPrototypeKeys -> FunctionObject
    [] OTHER -> IDENTIFIER

\* a token returned with the lexer's fields after the call
Lexed(tok, l) == [tok |-> tok, lexer |-> l]

\* TwoCharToken that leaves a one-character token unread
TwoCharTokenKeepingOne(inp, s, twoType, oneType) ==
  IF peekChar(inp, s) = "="
    THEN Lexed(Token(twoType, <<s.ch, "=">>, s.position), readChar(inp, readChar(inp, s)))
    ELSE Lexed(Token(oneType, <<s.ch>>, s.position), s)

\* Two-character operator `first=` or the one-character token
TwoCharToken(inp, s, twoType, oneType) ==
  IF peekChar(inp, s) = "="
    THEN Lexed(Token(twoType, <<s.ch, "=">>, s.position), readChar(inp, readChar(inp, s)))
    ELSE Lexed(Token(oneType, <<s.ch>>, s.position), readChar(inp, s))

\* StringToken reporting a literal that the end of input cut short
StringTokenReportingEnd(inp, pos, r) ==
  IF r.lexer.ch = NullCh
    THEN Lexed(Token(ILLEGAL, r.literal, pos), readChar(inp, r.lexer))
    ELSE Lexed(Token(STRING_T, r.literal, pos), readChar(inp, r.lexer))

\* the string case: token of the text read, then readChar over the closing quote
StringToken(inp, pos, r) == Lexed(Token(STRING_T, r.literal, pos), readChar(inp, r.lexer))

\* the letter and digit cases return without a further readChar
IdentifierToken(pos, r) == Lexed(Token(lookupIdent(r.literal), r.literal, pos), r.lexer)

NumberToken(pos, r) == Lexed(Token(NUMBER, r.literal, pos), r.lexer)

\* TokenAt without the case of the end of input
TokenAtWithoutEnd(inp, s) ==
  CASE s.ch = "=" -> Lexed(Token(EQUAL, <<s.ch>>, s.position), readChar(inp, s))
    [] s.ch = "!" -> TwoCharToken(inp, s, NOT_EQUAL, ILLEGAL)
    [] s.ch = ">" -> TwoCharToken(inp, s, GREATER_EQUAL, GREATER)
    [] s.ch = "<" -> TwoCharToken(inp, s, LESS_EQUAL, LESS)
    [] s.ch = "(" -> Lexed(Token(LEFT_PAREN, <<s.ch>>, s.position), readChar(inp, s))
    [] s.ch = ")" -> Lexed(Token(RIGHT_PAREN, <<s.ch>>, s.position), readChar(inp, s))
    [] s.ch = "'" -> StringToken(inp, s.position, readString(inp, s))
    [] OTHER ->
         IF isLetter(s.ch)
           THEN IdentifierToken(s.position, readIdentifier(inp, s))
           ELSE IF isDigit(s.ch)
             THEN NumberToken(s.position, readNumber(inp, s))
             ELSE Lexed(Token(ILLEGAL, <<s.ch>>, s.position), readChar(inp, s))

\* nextToken after skipWhitespace, s being the lexer's fields then
TokenAt(inp, s) ==
  CASE s.ch = "=" -> Lexed(Token(EQUAL, <<s.ch>>, s.position), readChar(inp, s))
    [] s.ch = "!" -> TwoCharToken(inp, s, NOT_EQUAL, ILLEGAL)
    [] s.ch = ">" -> TwoCharToken(inp, s, GREATER_EQUAL, GREATER)
    [] s.ch = "<" -> TwoCharToken(inp, s, LESS_EQUAL, LESS)
    [] s.ch = "(" -> Lexed(Token(LEFT_PAREN, <<s.ch>>, s.position), readChar(inp, s))
    [] s.ch = ")" -> Lexed(Token(RIGHT_PAREN, <<s.ch>>, s.position), readChar(inp, s))
    [] s.ch = "'" -> StringToken(inp, s.position, readString(inp, s))
    [] s.ch = NullCh -> Lexed(Token(EOF, <<>>, s.position), readChar(inp, s))
    [] OTHER ->
         IF isLetter(s.ch)
           THEN IdentifierToken(s.position, readIdentifier(inp, s))
           ELSE IF isDigit(s.ch)
             THEN NumberToken(s.position, readNumber(inp, s))
             ELSE Lexed(Token(ILLEGAL, <<s.ch>>, s.position), readChar(inp, s))

\* Lexer.nextToken: the token returned and the lexer's fields afterwards
nextToken(inp, l) == TokenAt(inp, skipWhitespace(inp, l))

\* The tokens successive nextToken calls return, up to and including the first EOF
RECURSIVE TokensFrom(_, _)
RECURSIVE TokensAfter(_, _)
TokensAfter(inp, r) ==
  IF r.tok.type = EOF THEN <<r.tok>> ELSE <<r.tok>> \o TokensFrom(inp, r.lexer)

TokensFrom(inp, l) == TokensAfter(inp, nextToken(inp, l))

Tokenize(inp) == TokensFrom(inp, NewLexer(inp))

(***************************************************************************)
(* Numbers.  A number is m / 10^e with e as small as possible, which is    *)
(* exact for the decimal literals the lexer accepts.                       *)
(***************************************************************************)
RECURSIVE Pow10(_)
Pow10(n) == IF n = 0 THEN 1 ELSE 10 * Pow10(n - 1)

RECURSIVE Normalize(_, _)
Normalize(m, e) ==
  IF e > 0 /\ m % 10 = 0 THEN Normalize(m \div 10, e - 1) ELSE [m |-> m, e |-> e]

Num(m, e) == LET n == Normalize(m, e) IN [t |-> "number", m |-> n.m, e |-> n.e]

NaN == [t |-> "number", nan |-> TRUE]

Str(s) == [t |-> "string", s |-> s]

Bool(b) == [t |-> "boolean", b |-> b]

JsNull == [t |-> "null"]

Undefined == [t |-> "undefined"]

JsFunction == [t |-> "function"]

isNaN(v) == v.t = "number" /\ "nan" \in DOMAIN v

\* x < y for two numbers that are not NaN
NumLess(x, y) == x.m * Pow10(y.e) < y.m * Pow10(x.e)

DigitValue(ch) ==
  CASE ch = "0" -> 0 [] ch = "1" -> 1 [] ch = "2" -> 2 [] ch = "3" -> 3 [] ch = "4" -> 4
    [] ch = "5" -> 5 [] ch = "6" -> 6 [] ch = "7" -> 7 [] ch = "8" -> 8 [] ch = "9" -> 9

RECURSIVE DigitsValue(_)
DigitsValue(s) ==
  IF s = <<>> THEN 0 ELSE 10 * DigitsValue(SubSeq(s, 1, Len(s) - 1)) + DigitValue(s[Len(s)])

\* length of the longest prefix of s made of digits
RECURSIVE DigitPrefixLen(_)
DigitPrefixLen(s) ==
  IF s # <<>> /\ isDigit(s[1]) THEN 1 + DigitPrefixLen(Tail(s)) ELSE 0

\* the number with integer digits `int` and fraction digits `frac`
Decimal(int, frac) ==
  Num(DigitsValue(int) * Pow10(Len(frac)) + DigitsValue(frac), Len(frac))

\* the digits after a leading point of `rest`, none if it has no leading point
FractionDigits(rest) ==
  IF rest # <<>> /\ rest[1] = "." THEN SubSeq(rest, 2, 1 + DigitPrefixLen(Tail(rest))) ELSE <<>>

\* parseFloat of text whose first i characters are its leading digits
ParseFloatAt(text, i) ==
  IF i = 0 /\ FractionDigits(text) = <<>>
    THEN NaN
    ELSE Decimal(SubSeq(text, 1, i), FractionDigits(SubSeq(text, i + 1, Len(text))))

\* parseFloat on unsigned decimal text (a NUMBER token's literal carries no sign
\* and no exponent): the longest prefix digits[.digits] is converted, NaN if none
parseFloat(text) == ParseFloatAt(text, DigitPrefixLen(text))

(***************************************************************************)
(* domain/ast.ts                                                           *)
(***************************************************************************)
BinaryExpression(left, operator, right) ==
  [kind |-> "BinaryExpression", left |-> left, operator |-> operator, right |-> right]

LogicalExpression(left, operator, right) ==
  [kind |-> "LogicalExpression", left |-> left, operator |-> operator, right |-> right]

Identifier(token, value) == [kind |-> "Identifier", token |-> token, value |-> value]

NumberLiteral(token, value) == [kind |-> "NumberLiteral", token |-> token, value |-> value]

StringLiteral(token, value) == [kind |-> "StringLiteral", token |-> token, value |-> value]

(***************************************************************************)
(* parser/parser.ts                                                        *)
(***************************************************************************)
LOWEST == 1
LOGICAL == 2
COMPARE == 3

\* precedences with an entry for ILLEGAL
precedencesWithIllegal(type) ==
  CASE type \in {OR, AND} -> LOGICAL
    [] type \in {EQUAL, NOT_EQUAL, GREATER, LESS, GREATER_EQUAL, LESS_EQUAL, ILLEGAL} -> COMPARE
    [] OTHER -> LOWEST

\* precedences[type] || Precedence.LOWEST
precedences(type) ==
  CASE type \in {OR, AND} -> LOGICAL
    [] type \in {EQUAL, NOT_EQUAL, GREATER, LESS, GREATER_EQUAL, LESS_EQUAL} -> COMPARE
    [] OTHER -> LOWEST

NoError == [kind |-> "none"]

NoNode == [kind |-> "none"]

\* a call that returned `node` leaving the parser as `p`
Returned(node, p) == [err |-> NoError, node |-> node, p |-> p]

\* a call that did addError(msg) and threw, leaving the parser as `p`
Threw(err, p) ==
  [err |-> err, node |-> NoNode, p |-> [p EXCEPT !.errors = Append(@, err)]]

\* Parser.nextToken, r being what this.lexer.nextToken() gives
Shift(p, r) == [p EXCEPT !.curToken = p.peekToken, !.peekToken = r.tok, !.lexer = r.lexer]

advance(inp, p) == Shift(p, nextToken(inp, p.lexer))

\* new Parser(new Lexer(inp)): two nextToken calls fill curToken and peekToken
NewParser(inp) ==
  advance(inp, advance(inp, [curToken |-> Token(EOF, <<>>, 0), peekToken |-> Token(EOF, <<>>, 0),
                             lexer |-> NewLexer(inp), errors |-> <<>>]))

peekPrecedence(p) == precedences(p.peekToken.type)

curPrecedence(p) == precedences(p.curToken.type)

NumberLiteralOf(p, value) ==
  IF isNaN(value)
    THEN Threw([kind |-> "NotANumber", literal |-> p.curToken.literal,
                position |-> p.curToken.position], p)
    ELSE Returned(NumberLiteral(p.curToken, value), p)

parseNumberLiteral(p) == NumberLiteralOf(p, parseFloat(p.curToken.literal))

RECURSIVE parseExpression(_, _, _)
RECURSIVE parseInfixLoop(_, _, _)
RECURSIVE parsePrimary(_, _)
RECURSIVE parseGroupedExpression(_, _)
RECURSIVE parseInfixExpression(_, _, _)

\* the end of parseGroupedExpression that takes a right parenthesis if there is one
CloseGroupIfThere(inp, r) ==
  IF r.err # NoError
    THEN r
    ELSE IF r.p.peekToken.type # RIGHT_PAREN
      THEN Returned(r.node, r.p)
      ELSE Returned(r.node, advance(inp, r.p))

\* parseGroupedExpression once the inner parseExpression call has ended as r
CloseGroup(inp, r) ==
  IF r.err # NoError
    THEN r
    ELSE IF r.p.peekToken.type # RIGHT_PAREN
      THEN Threw([kind |-> "ExpectedClosingParen",
                  position |-> r.p.peekToken.position], r.p)
      ELSE Returned(r.node, advance(inp, r.p))

\* parseGroupedExpression that parses the group at the LOGICAL threshold
parseGroupedExpressionAtLogical(inp, p) ==
  CloseGroup(inp, parseExpression(inp, advance(inp, p), LOGICAL))

parseGroupedExpression(inp, p) ==
  CloseGroup(inp, parseExpression(inp, advance(inp, p), LOWEST))

\* parsePrimary that takes any other token for an identifier
parsePrimaryLenient(inp, p) ==
  CASE p.curToken.type = NUMBER -> parseNumberLiteral(p)
    [] p.curToken.type = STRING_T ->
         Returned(StringLiteral(p.curToken, p.curToken.literal), p)
    [] p.curToken.type = LEFT_PAREN -> parseGroupedExpression(inp, p)
    [] OTHER -> Returned(Identifier(p.curToken, p.curToken.literal), p)

parsePrimary(inp, p) ==
  CASE p.curToken.type = IDENTIFIER ->
         Returned(Identifier(p.curToken, p.curToken.literal), p)
    [] p.curToken.type = NUMBER -> parseNumberLiteral(p)
    [] p.curToken.type = STRING_T ->
         Returned(StringLiteral(p.curToken, p.curToken.literal), p)
    [] p.curToken.type = LEFT_PAREN -> parseGroupedExpression(inp, p)
    [] OTHER ->
         Threw([kind |-> "UnexpectedToken", literal |-> p.curToken.literal,
                position |-> p.curToken.position], p)

\* parseInfixExpression once the right operand's parseExpression call has ended as r
InfixNode(left, operator, r) ==
  IF r.err # NoError
    THEN r
    ELSE IF operator.type = AND \/ operator.type = OR
      THEN Returned(LogicalExpression(left, operator, r.node), r.p)
      ELSE Returned(BinaryExpression(left, operator, r.node), r.p)

\* parseInfixExpression that parses the right operand one threshold lower
parseInfixExpressionRightAssociative(inp, left, p) ==
  InfixNode(left, p.curToken, parseExpression(inp, advance(inp, p), curPrecedence(p) - 1))

parseInfixExpression(inp, left, p) ==
  InfixNode(left, p.curToken, parseExpression(inp, advance(inp, p), curPrecedence(p)))

\* the while loop of parseExpression, r being how the last parsePrimary or
\* parseInfixExpression call ended (r.node is `left`)
parseInfixLoop(inp, r, precedence) ==
  IF r.err # NoError
    THEN r
    ELSE IF r.p.peekToken.type # EOF /\ precedence < peekPrecedence(r.p)
      THEN parseInfixLoop(inp, parseInfixExpression(inp, r.node, advance(inp, r.p)),
                          precedence)
      ELSE r

parseExpression(inp, p, precedence) ==
  parseInfixLoop(inp, parsePrimary(inp, p), precedence)

\* the parser stepped onto EOF when only EOF is left
StepOntoEOF(inp, p) ==
  IF p.peekToken.type = EOF /\ p.curToken.type # EOF THEN advance(inp, p) ELSE p

\* the end of parse without the check that the input has ended
ExpectEndUnchecked(r, q) == Returned(r.node, q)

\* parse after parseExpression(LOWEST) has returned r.node, q being the parser then
ExpectEnd(r, q) ==
  IF q.curToken.type # EOF
    THEN [err |-> [kind |-> "ExpectedEndOfExpression", literal |-> q.curToken.literal,
                   position |-> q.curToken.position],
          node |-> NoNode, p |-> q]
    ELSE Returned(r.node, q)

ParseEnd(inp, r) == IF r.err # NoError THEN r ELSE ExpectEnd(r, StepOntoEOF(inp, r.p))

\* Parser.parse on a new parser: the tree returned or the error thrown, and the
\* parser's fields at that moment
parse(inp) == ParseEnd(inp, parseExpression(inp, NewParser(inp), LOWEST))

(***************************************************************************)
(* evaluator/evaluator.ts                                                  *)
(***************************************************************************)
\* this.data[fieldName] on a plain object
Lookup(record, fieldName) ==
  IF fieldName \in DOMAIN record
    THEN record[fieldName]
    ELSE IF fieldName \in ObjectPrototypeKeys THEN JsFunction ELSE Undefined

\* left === right
StrictEquals(left, right) == left = right /\ ~isNaN(left)

\* null stands for "not a number"
NotNumber == [t |-> "null"]

\* toNumber that also converts numeric-looking strings
toNumberCoercing(val) ==
  IF val.t = "number" /\ ~isNaN(val)
    THEN val
    ELSE IF val.t = "string" /\ ~isNaN(parseFloat(val.s)) THEN parseFloat(val.s) ELSE NotNumber

toNumber(val) == IF val.t = "number" /\ ~isNaN(val) THEN val ELSE NotNumber

equals(left, right) ==
  IF StrictEquals(left, right)
    THEN TRUE
    ELSE IF toNumber(left) # NotNumber /\ toNumber(right) # NotNumber
      THEN StrictEquals(toNumber(left), toNumber(right))
      ELSE IF left.t = "string" /\ right.t = "string"
        THEN StrictEquals(left, right)
        ELSE FALSE

\* a boolean returned, or an Error thrown
Value(b) == [err |-> NoError, value |-> b]

Throw(kind) == [err |-> [kind |-> kind], value |-> FALSE]

\* greaterThan that tests the converted operands for falsiness instead of null
greaterThanFalsy(left, right) ==
  LET falsy(n) == n = NotNumber \/ n = Num(0, 0)
  IN  IF falsy(toNumber(left)) \/ falsy(toNumber(right))
        THEN Throw("NonNumericGreater")
        ELSE Value(NumLess(toNumber(right), toNumber(left)))

greaterThan(left, right) ==
  IF toNumber(left) = NotNumber \/ toNumber(right) = NotNumber
    THEN Throw("NonNumericGreater")
    ELSE Value(NumLess(toNumber(right), toNumber(left)))

\* lessThan that also holds for equal numbers
lessThanOrEqual(left, right) ==
  IF toNumber(left) = NotNumber \/ toNumber(right) = NotNumber
    THEN Throw("NonNumericLess")
    ELSE Value(~NumLess(toNumber(right), toNumber(left)))

lessThan(left, right) ==
  IF toNumber(left) = NotNumber \/ toNumber(right) = NotNumber
    THEN Throw("NonNumericLess")
    ELSE Value(NumLess(toNumber(left), toNumber(right)))

\* a || b where evaluating a may throw and b is evaluated only if a is false
OrElse(a, b) == IF a.err # NoError \/ a.value THEN a ELSE b

\* compare whose >= and <= test equality before the ordering
compareEqualsFirst(left, operator, right) ==
  CASE operator = EQUAL -> Value(equals(left, right))
    [] operator = NOT_EQUAL -> Value(~equals(left, right))
    [] operator = GREATER -> greaterThan(left, right)
    [] operator = LESS -> lessThan(left, right)
    [] operator = GREATER_EQUAL ->
         OrElse(Value(equals(left, right)), greaterThan(left, right))
    [] operator = LESS_EQUAL ->
         OrElse(Value(equals(left, right)), lessThan(left, right))
    [] OTHER -> Throw("UnknownComparisonOperator")

compare(left, operator, right) ==
  CASE operator = EQUAL -> Value(equals(left, right))
    [] operator = NOT_EQUAL -> Value(~equals(left, right))
    [] operator = GREATER -> greaterThan(left, right)
    [] operator = LESS -> lessThan(left, right)
    [] operator = GREATER_EQUAL ->
         OrElse(greaterThan(left, right), Value(equals(left, right)))
    [] operator = LESS_EQUAL ->
         OrElse(lessThan(left, right), Value(equals(left, right)))
    [] OTHER -> Throw("UnknownComparisonOperator")

formatClause(expr) ==
  LET left == IF expr.left.kind = "Identifier" THEN expr.left.value ELSE <<>>
      operator == expr.operator.literal
      right == CASE expr.right.kind = "NumberLiteral" -> expr.right.token.literal
                 [] expr.right.kind = "StringLiteral" -> <<"'">> \o expr.right.value \o <<"'">>
                 [] OTHER -> <<>>
  IN  left \o <<" ">> \o operator \o <<" ">> \o right

addDetail(dets, clause, res) == Append(dets, [clause |-> clause, result |-> res])

\* what a call of eval, evalLogicalExpression or evalBinaryExpression leaves: the
\* boolean returned or the Error thrown, and this.details afterwards
Outcome(err, value, dets) == [err |-> err, value |-> value, details |-> dets]

evalBinaryExpression(expr, record, dets, trackDetails) ==
  IF expr.left.kind # "Identifier"
    THEN Outcome([kind |-> "LeftNotIdentifier"], FALSE, dets)
    ELSE
      LET dataValue == Lookup(record, expr.left.value)
          tracked(res) == IF trackDetails THEN addDetail(dets, formatClause(expr), res)
                          ELSE dets
      IN  IF dataValue = Undefined
            THEN Outcome(NoError, FALSE, tracked(FALSE))
            ELSE IF expr.right.kind \notin {"NumberLiteral", "StringLiteral"}
              THEN Outcome([kind |-> "RightNotLiteral"], FALSE, dets)
              ELSE
                LET expectedValue == IF expr.right.kind = "NumberLiteral"
                                       THEN expr.right.value
                                       ELSE Str(expr.right.value)
                    c == compare(dataValue, expr.operator.type, expectedValue)
                IN  IF c.err # NoError
                      THEN Outcome(c.err, FALSE, dets)
                      ELSE Outcome(NoError, c.value, tracked(c.value))

RECURSIVE eval(_, _, _, _)
RECURSIVE evalLogicalExpression(_, _, _, _)

\* evalLogicalExpression that skips the right operand once the left one decides
evalLogicalShortCircuit(expr, record, dets, trackDetails) ==
  LET l == eval(expr.left, record, dets, trackDetails)
      r == eval(expr.right, record, l.details, trackDetails)
  IN  IF l.err # NoError
        THEN l
        ELSE CASE expr.operator.type = AND ->
                    IF ~l.value THEN l ELSE r
               [] expr.operator.type = OR ->
                    IF l.value THEN l ELSE r
               [] OTHER -> Outcome([kind |-> "UnknownLogicalOperator"], FALSE, l.details)

\* evalLogicalExpression with the two combinations exchanged
evalLogicalExchanged(expr, record, dets, trackDetails) ==
  LET l == eval(expr.left, record, dets, trackDetails)
      r == eval(expr.right, record, l.details, trackDetails)
  IN  IF l.err # NoError
        THEN l
        ELSE IF r.err # NoError
          THEN r
          ELSE CASE expr.operator.type = AND -> Outcome(NoError, l.value \/ r.value, r.details)
                 [] expr.operator.type = OR -> Outcome(NoError, l.value /\ r.value, r.details)
                 [] OTHER -> Outcome([kind |-> "UnknownLogicalOperator"], FALSE, r.details)

evalLogicalExpression(expr, record, dets, trackDetails) ==
  LET l == eval(expr.left, record, dets, trackDetails)
      r == eval(expr.right, record, l.details, trackDetails)
  IN  IF l.err # NoError
        THEN l
        ELSE IF r.err # NoError
          THEN r
          ELSE CASE expr.operator.type = AND -> Outcome(NoError, l.value /\ r.value, r.details)
                 [] expr.operator.type = OR -> Outcome(NoError, l.value \/ r.value, r.details)
                 [] OTHER -> Outcome([kind |-> "UnknownLogicalOperator"], FALSE, r.details)

\* eval that takes a node of any other kind for a false clause
evalOtherIsFalse(expr, record, dets, trackDetails) ==
  CASE expr.kind = "LogicalExpression" ->
         evalLogicalExpression(expr, record, dets, trackDetails)
    [] expr.kind = "BinaryExpression" ->
         evalBinaryExpression(expr, record, dets, trackDetails)
    [] OTHER -> Outcome(NoError, FALSE, dets)

eval(expr, record, dets, trackDetails) ==
  CASE expr.kind = "LogicalExpression" ->
         evalLogicalExpression(expr, record, dets, trackDetails)
    [] expr.kind = "BinaryExpression" ->
         evalBinaryExpression(expr, record, dets, trackDetails)
    [] OTHER -> Outcome([kind |-> "UnexpectedExpressionType"], FALSE, dets)

Last(q) == q[Len(q)]

\* the reset done by emptying the array this.details names
ClearDetails(arrays) == [arrays EXCEPT ![Len(arrays)] = <<>>]

\* the evaluator's arrays after `this.details = []`: a new empty array, the one
\* this.details names from now on
ResetDetails(arrays) == Append(arrays, <<>>)

\* new Evaluator(record).evaluate(expr): the field initializer's array, the reset,
\* then the tree walked
evaluate(expr, record) == eval(expr, record, Last(ResetDetails(<<<<>>>>)), TRUE)

(***************************************************************************)
(* Inputs: source texts, externally built trees and data records           *)
(***************************************************************************)
RECURSIVE Join(_)
\* the texts of q separated by single spaces
Join(q) ==
  IF q = <<>> THEN <<>>
  ELSE IF Len(q) = 1 THEN q[1]
  ELSE q[1] \o <<" ">> \o Join(Tail(q))

FieldA == <<"a">>
FieldB == <<"b">>
ProtoField == <<"v","a","l","u","e","O","f">>

Lexemes ==
  { FieldA, ProtoField, <<"1">>, <<"1",".","0">>, <<"'","x","'">>, <<"'","1","'">>,
    <<"=">>, <<"!","=">>, <<">">>, <<"<">>, <<">","=">>, <<"<","=">>,
    <<"A","N","D">>, <<"O","R">>, <<"(">>, <<")">>, <<"@">> }

ClauseP == <<"a"," ",">"," ","1">>
ClauseQ == <<"b"," ","="," ","'","x","'">>
GroupPQ == <<"(", " ">> \o ClauseP \o <<" ","O","R"," ">> \o ClauseQ \o <<" ", ")">>

Items == { ClauseP, ClauseQ, GroupPQ, <<"A","N","D">>, <<"O","R">>, <<"(">>, <<")">> }

\* inp is at most MaxTokens lexemes, single-spaced
IsLexemeSource(inp) == \E k \in 0..MaxTokens : \E q \in [1..k -> Lexemes] : inp = Join(q)

\* the sources a Lexer is followed on call by call: at most MaxTokens lexemes of at
\* most three characters
IsShortSource(inp) ==
  \E k \in 0..MaxTokens : \E q \in [1..k -> Lexemes \ {ProtoField}] : inp = Join(q)

\* sources the grammar accepts although no evaluation of them can return
InvalidSources ==
  { <<"5"," ",">"," ","3">>, <<"a"," ","="," ","1"," ","="," ","2">>, <<"a","g","e">>,
    <<"a"," ","A","N","D"," ","b">> }

\* characters nextToken has no case for when they stand alone
UnsupportedLexemes == { <<"!">>, <<".">>, <<"-">>, <<"_">>, <<"\"">>, <<"#">> }

\* what stands around an unsupported character
Surroundings == { ClauseP, FieldA, <<"1">>, <<"=">>, <<"A","N","D">>, <<"(">>, <<")">> }

\* inp is at most MaxTokens surroundings and unsupported characters, single-spaced
IsUnsupportedSource(inp) ==
  \E k \in 1..MaxTokens : \E q \in [1..k -> Surroundings \cup UnsupportedLexemes] :
    inp = Join(q)

\* inp is at most MaxTokens lexemes, or at most MaxItems items, or at most MaxTokens
\* surroundings and unsupported characters, single-spaced, or one of InvalidSources
IsSource(inp) ==
  \/ IsLexemeSource(inp)
  \/ \E k \in 0..MaxItems : \E q \in [1..k -> Items] : inp = Join(q)
  \/ IsUnsupportedSource(inp)
  \/ inp \in InvalidSources

\* trees a caller builds without the parser
BuiltToken(type, literal) == Token(type, literal, 0)

BuiltIdentifier(name) == Identifier(BuiltToken(IDENTIFIER, name), name)

BuiltNumber(text) == NumberLiteral(BuiltToken(NUMBER, text), parseFloat(text))

BuiltString(text) == StringLiteral(BuiltToken(STRING_T, text), text)

ComparisonOperators == {EQUAL, NOT_EQUAL, GREATER, LESS, GREATER_EQUAL, LESS_EQUAL}

\* a TokenType's text is the operator's literal
OperatorToken(type) == BuiltToken(type, CASE type = EQUAL -> <<"=">>
                                          [] type = NOT_EQUAL -> <<"!","=">>
                                          [] type = GREATER -> <<">">>
                                          [] type = LESS -> <<"<">>
                                          [] type = GREATER_EQUAL -> <<">","=">>
                                          [] type = LESS_EQUAL -> <<"<","=">>
                                          [] type = AND -> <<"A","N","D">>
                                          [] type = OR -> <<"O","R">>)

BuiltLeaves ==
  { BuiltIdentifier(FieldA), BuiltIdentifier(ProtoField), BuiltNumber(<<"1">>),
    BuiltString(<<"x">>) }

BuiltComparisons ==
  { BinaryExpression(l, OperatorToken(op), r) :
      l \in BuiltLeaves \ {BuiltString(<<"x">>)}, op \in ComparisonOperators,
      r \in BuiltLeaves \ {BuiltIdentifier(ProtoField)} }

BuiltOperands ==
  { BinaryExpression(BuiltIdentifier(FieldA), OperatorToken(GREATER), BuiltNumber(<<"1">>)),
    BinaryExpression(BuiltIdentifier(FieldB), OperatorToken(NOT_EQUAL), BuiltString(<<"x">>)),
    BinaryExpression(BuiltIdentifier(FieldB), OperatorToken(LESS_EQUAL), BuiltIdentifier(FieldA)),
    BinaryExpression(BuiltNumber(<<"1">>), OperatorToken(EQUAL), BuiltNumber(<<"1">>)),
    BuiltIdentifier(FieldA) }

BuiltTrees ==
  BuiltLeaves \cup BuiltComparisons
    \cup { LogicalExpression(l, OperatorToken(op), r) :
             l \in BuiltOperands, op \in {AND, OR}, r \in BuiltOperands }

\* trees the caller of one evaluator evaluates besides ast: b != 'x' AND 1 = 1 records
\* a clause and raises, b != 'x' returns
ReturningTree ==
  BinaryExpression(BuiltIdentifier(FieldB), OperatorToken(NOT_EQUAL), BuiltString(<<"x">>))

RaisingTree ==
  LogicalExpression(ReturningTree, OperatorToken(AND),
                    BinaryExpression(BuiltNumber(<<"1">>), OperatorToken(EQUAL),
                                     BuiltNumber(<<"1">>)))

OtherTrees == {ReturningTree, RaisingTree}

\* data records: field a absent or holding a value, field b absent or 'x'
ValuesA ==
  { Num(0, 0), Num(1, 0), Num(15, 1), Num(2, 0), Str(<<"1">>), Str(<<"x">>), Bool(TRUE),
    JsNull }

Records ==
  LET empty == [n \in {} |-> Undefined]
      withA == {empty} \cup {[n \in {FieldA} |-> v] : v \in ValuesA}
  IN  withA \cup {[n \in DOMAIN r \cup {FieldB} |->
                     IF n = FieldB THEN Str(<<"x">>) ELSE r[n]] : r \in withA}

(***************************************************************************)
(* The pipeline as its callers drive it                                    *)
(***************************************************************************)
NoInput == <<"<", "n", "o", "n", "e", ">">>
NoParser == [kind |-> "none"]
NoData == [n \in {} |-> Undefined]
NoResult == [kind |-> "none"]
\* this.details before there is an Evaluator
NoDetails == 0
NoLexer == [kind |-> "none"]

\* the caller holds an Evaluator
EvaluatorStates == {"evaluator", "evaluated", "evaluationError"}

Init ==
  /\ \/ IsSource(input) /\ origin = "parser" /\ pc = "source" /\ ast = NoNode
     \/ input = NoInput /\ origin = "caller" /\ pc = "tree" /\ ast \in BuiltTrees
  /\ error = NoError
  /\ parser = NoParser
  /\ data = NoData
  /\ details = NoDetails
  /\ result = NoResult
  /\ heap = <<>>
  /\ returned = <<>>
  /\ evaluators = 0
  /\ lexer = NoLexer
  /\ tokens = <<>>
  /\ rules = <<>>
  /\ ruleObjects = <<>>
  /\ astCache = <<>>
  /\ calls = <<>>

\* what the caller of parseExpression holds once parser.parse() has ended as r
Parsing(r) ==
  /\ pc' = IF r.err = NoError THEN "tree" ELSE "syntaxError"
  /\ ast' = r.node
  /\ error' = r.err
  /\ parser' = [curToken |-> r.p.curToken, peekToken |-> r.p.peekToken,
                errors |-> r.p.errors]

\* parseExpression(input): new Lexer, new Parser, parser.parse()
ParseExpression ==
  /\ pc = "source"
  /\ Parsing(parse(input))
  /\ UNCHANGED service
  /\ UNCHANGED <<input, origin, data, details, result, heap, returned, evaluators, lexer,
               tokens>>

\* new Evaluator(data), by the first caller or by a later one sharing the tree:
\* the field initializer makes the first details array
NewEvaluator(record) ==
  /\ pc \in {"tree"} \cup EvaluatorStates
  /\ evaluators < MaxEvaluators
  /\ evaluators' = evaluators + 1
  /\ pc' = "evaluator"
  /\ data' = record
  /\ heap' = <<<<>>>>
  /\ details' = 1
  /\ returned' = <<>>
  /\ error' = NoError
  /\ result' = NoResult
  /\ UNCHANGED service
  /\ UNCHANGED <<input, origin, ast, parser, lexer, tokens>>

\* Called for an evaluation that keeps only the left operand of the shared tree
CalledSimplifying(expr, r, arrays) ==
  /\ heap' = [arrays EXCEPT ![Len(arrays)] = r.details]
  /\ details' = Len(arrays)
  /\ returned' = IF r.err = NoError
                   THEN Append(returned, [expr |-> expr, result |-> r.value,
                                          details |-> Len(arrays)])
                   ELSE returned
  /\ ast' = IF ast.kind = "LogicalExpression" THEN ast.left ELSE ast
  /\ data' = data

\* what a call evaluate(expr) leaves of the objects it reaches once eval(expr, true)
\* has ended as r: the array this.details names holds the clauses recorded, the
\* object returned names that array, the tree and the record are not written
Called(expr, r, arrays) ==
  /\ heap' = [arrays EXCEPT ![Len(arrays)] = r.details]
  /\ details' = Len(arrays)
  /\ returned' = IF r.err = NoError
                   THEN Append(returned, [expr |-> expr, result |-> r.value,
                                          details |-> Len(arrays)])
                   ELSE returned
  /\ ast' = ast
  /\ data' = data

\* what the caller holds once evaluate(ast) has ended as r: the result and the
\* clause list as read on return, or the error thrown
Evaluating(r) ==
  /\ pc' = IF r.err = NoError THEN "evaluated" ELSE "evaluationError"
  /\ error' = r.err
  /\ result' = IF r.err = NoError
                 THEN [result |-> r.value, details |-> r.details]
                 ELSE NoResult

\* evaluator.evaluate(ast), also called again on the same evaluator
Evaluate ==
  /\ pc \in EvaluatorStates
  /\ Len(heap) <= MaxCalls
  /\ Evaluating(eval(ast, data, Last(ResetDetails(heap)), TRUE))
  /\ Called(ast, eval(ast, data, Last(ResetDetails(heap)), TRUE), ResetDetails(heap))
  /\ UNCHANGED service
  /\ UNCHANGED <<input, origin, parser, evaluators, lexer, tokens>>

\* evaluator.evaluate(expr) for another tree on the same evaluator, its outcome
\* left aside
EvaluateAnother(expr) ==
  /\ pc \in EvaluatorStates
  /\ Len(heap) <= MaxCalls
  /\ Called(expr, eval(expr, data, Last(ResetDetails(heap)), TRUE), ResetDetails(heap))
  /\ UNCHANGED service
  /\ UNCHANGED <<input, origin, pc, error, parser, result, evaluators, lexer, tokens>>

Next ==
  \/ ParseExpression
  \/ \E record \in Records : NewEvaluator(record)
  \/ Evaluate
  \/ \E expr \in OtherTrees : EvaluateAnother(expr)

Spec == Init /\ [][Next]_vars

(***************************************************************************)
(* A Lexer driven by its caller, one nextToken call after the other        *)
(***************************************************************************)
\* before a Lexer is made
InitLexer ==
  /\ input = NoInput
  /\ origin = "parser"
  /\ pc = "lexer"
  /\ lexer = NoLexer
  /\ tokens = <<>>
  /\ rules = <<>>
  /\ ruleObjects = <<>>
  /\ astCache = <<>>
  /\ calls = <<>>
  /\ ast = NoNode
  /\ error = NoError
  /\ parser = NoParser
  /\ data = NoData
  /\ details = NoDetails
  /\ result = NoResult
  /\ heap = <<>>
  /\ returned = <<>>
  /\ evaluators = 0

\* new Lexer(input) for a source of the caller's choice
CreateLexer ==
  /\ pc = "lexer"
  /\ lexer = NoLexer
  /\ IsShortSource(input')
  /\ lexer' = NewLexer(input')
  /\ UNCHANGED service
  /\ UNCHANGED <<origin, pc, ast, error, parser, data, details, result, heap, returned,
                 evaluators, tokens>>

\* what the caller of nextToken holds once the call has ended as r
Lexing(r) ==
  /\ lexer' = r.lexer
  /\ tokens' = Append(tokens, r.tok)

\* lexer.nextToken()
NextToken ==
  /\ pc = "lexer"
  /\ lexer # NoLexer
  /\ lexer.position < Len(input) + MaxPastEnd
  /\ Lexing(nextToken(input, lexer))
  /\ UNCHANGED service
  /\ UNCHANGED <<input, origin, pc, ast, error, parser, data, details, result, heap,
                 returned, evaluators>>

NextLexer == CreateLexer \/ NextToken

\* the caller keeps calling nextToken
SpecLexer == InitLexer /\ [][NextLexer]_vars /\ WF_vars(NextToken)

(***************************************************************************)
(* A Lexer followed call by call on texts glued from words, numbers,       *)
(* string literals and single characters, with or without a space between  *)
(***************************************************************************)
Pieces ==
  { <<"A","N","D">>, <<"O","R">>, <<"a","n","d">>, <<"O","r">>, <<"A","N","D","x">>,
    <<"a","g","e","_","2">>, ProtoField, <<"x">>,
    <<"1","8">>, <<"1",".","2">>, <<"3">>,
    <<"'","a","b","c","'">>, <<"'","a","b","c">>,
    <<".">>, <<"-">>, <<"_">>, <<"!">>, <<"\"">>, <<"=">> }

RECURSIVE Glue(_, _)
\* the texts of q with g[i] between q[i] and q[i + 1]
Glue(q, g) ==
  IF q = <<>> THEN <<>>
  ELSE IF Len(q) = 1 THEN q[1]
  ELSE q[1] \o g[1] \o Glue(Tail(q), Tail(g))

\* inp is at most MaxPieces pieces, each two of them glued directly or with a space
IsLexicalText(inp) ==
  \E k \in 0..MaxPieces : \E q \in [1..k -> Pieces] :
    \E g \in [1..(k - 1) -> {<<>>, <<" ">>}] : inp = Glue(q, g)

\* new Lexer(input) for a text of the caller's choice
CreateLexerOnText ==
  /\ pc = "lexer"
  /\ lexer = NoLexer
  /\ IsLexicalText(input')
  /\ lexer' = NewLexer(input')
  /\ UNCHANGED service
  /\ UNCHANGED <<origin, pc, ast, error, parser, data, details, result, heap, returned,
                 evaluators, tokens>>

NextTokens == CreateLexerOnText \/ NextToken

SpecTokens == InitLexer /\ [][NextTokens]_vars

(***************************************************************************)
(* service/rule-service.ts over repository/memory-repository.ts            *)
(***************************************************************************)
MAX_ID_LENGTH == 100
MAX_EXPRESSION_LENGTH == 1000
MAX_DESCRIPTION_LENGTH == 500

WhiteSpace == {" ", "\t", "\n", "\r"}

RECURSIVE trimStart(_)
trimStart(s) == IF s # <<>> /\ s[1] \in WhiteSpace THEN trimStart(Tail(s)) ELSE s

RECURSIVE trimEnd(_)
trimEnd(s) ==
  IF s # <<>> /\ s[Len(s)] \in WhiteSpace THEN trimEnd(SubSeq(s, 1, Len(s) - 1)) ELSE s

\* String.prototype.trim; a field that is absent is held as the empty text, which
\* every test of the code (`!id`, `id?.trim() || ''`, `description && ...`) treats
\* as it treats undefined
trim(s) == trimEnd(trimStart(s))

\* String.prototype.includes
includes(s, sub) ==
  \E i \in 0..(Len(s) - Len(sub)) : SubSeq(s, i + 1, i + Len(sub)) = sub

DigitChars == <<"0","1","2","3","4","5","6","7","8","9">>

RECURSIVE numberToString(_)
\* `${n}` for an integer n >= 0
numberToString(n) ==
  IF n < 10
    THEN <<DigitChars[n + 1]>>
    ELSE numberToString(n \div 10) \o <<DigitChars[(n % 10) + 1]>>

\* the message of the Error the parser throws
parserMessage(err) ==
  CASE err.kind = "UnexpectedToken" ->
         <<"U","n","e","x","p","e","c","t","e","d"," ","t","o","k","e","n"," ","'">> \o err.literal \o <<"'"," ","a","t"," ","p","o","s","i","t","i","o","n"," ">>
           \o numberToString(err.position)
    [] err.kind = "NotANumber" ->
         <<"C","o","u","l","d"," ","n","o","t"," ","p","a","r","s","e"," ","'">> \o err.literal \o <<"'"," ","a","s"," ","n","u","m","b","e","r"," ","a","t"," ","p","o","s","i","t","i","o","n"," ">>
           \o numberToString(err.position)
    [] err.kind = "ExpectedClosingParen" ->
         <<"E","x","p","e","c","t","e","d"," ","c","l","o","s","i","n","g"," ","p","a","r","e","n","t","h","e","s","i","s"," ","'",")","'"," ","a","t"," ","p","o","s","i","t","i","o","n"," ">> \o numberToString(err.position)
    [] OTHER ->
         <<"U","n","e","x","p","e","c","t","e","d"," ","t","o","k","e","n"," ","'">> \o err.literal \o <<"'"," ","a","t"," ","p","o","s","i","t","i","o","n"," ">>
           \o numberToString(err.position) \o <<"."," ","E","x","p","e","c","t","e","d"," ","e","n","d"," ","o","f"," ","e","x","p","r","e","s","s","i","o","n",".">>

\* the message of the Error the evaluator throws
evaluatorMessage(err) ==
  CASE err.kind = "NonNumericGreater" -> <<"C","a","n","n","o","t"," ","c","o","m","p","a","r","e"," ","n","o","n","-","n","u","m","e","r","i","c"," ","v","a","l","u","e","s"," ","w","i","t","h"," ",">"," ","o","p","e","r","a","t","o","r">>
    [] err.kind = "NonNumericLess" -> <<"C","a","n","n","o","t"," ","c","o","m","p","a","r","e"," ","n","o","n","-","n","u","m","e","r","i","c"," ","v","a","l","u","e","s"," ","w","i","t","h"," ","<"," ","o","p","e","r","a","t","o","r">>
    [] err.kind = "LeftNotIdentifier" -> <<"L","e","f","t"," ","s","i","d","e"," ","o","f"," ","c","o","m","p","a","r","i","s","o","n"," ","m","u","s","t"," ","b","e"," ","a","n"," ","i","d","e","n","t","i","f","i","e","r">>
    [] err.kind = "RightNotLiteral" -> <<"R","i","g","h","t"," ","s","i","d","e"," ","o","f"," ","c","o","m","p","a","r","i","s","o","n"," ","m","u","s","t"," ","b","e"," ","a"," ","l","i","t","e","r","a","l"," ","v","a","l","u","e">>
    [] err.kind = "UnknownComparisonOperator" -> <<"U","n","k","n","o","w","n"," ","c","o","m","p","a","r","i","s","o","n"," ","o","p","e","r","a","t","o","r">>
    [] err.kind = "UnknownLogicalOperator" -> <<"U","n","k","n","o","w","n"," ","l","o","g","i","c","a","l"," ","o","p","e","r","a","t","o","r">>
    [] OTHER -> <<"U","n","e","x","p","e","c","t","e","d"," ","e","x","p","r","e","s","s","i","o","n"," ","t","y","p","e",":"," ","I","d","e","n","t","i","f","i","e","r">>

\* Map.set and Map.delete, a Map being held as a function on its keys
MapSet(m, k, v) == [x \in DOMAIN m \cup {k} |-> IF x = k THEN v ELSE m[x]]

MapDelete(m, k) == [x \in DOMAIN m \ {k} |-> m[x]]

\* the null that getById returns for no rule
NullRule == 0

NoValue == [kind |-> "none"]

\* the Rule object a call returns
Returning(ref) == [kind |-> "Rule", rule |-> ref]

\* how a call or an awaited promise has ended: `cause` names the throw statement
Success(value) == [ok |-> TRUE, cause |-> "none", message |-> <<>>, value |-> value]

Failure(cause, message) ==
  [ok |-> FALSE, cause |-> cause, message |-> message, value |-> NoValue]

Pending == [ok |-> FALSE, cause |-> "pending", message |-> <<>>, value |-> NoValue]

AlreadyExists(id) ==
  Failure("AlreadyExists", <<"R","u","l","e"," ","w","i","t","h"," ","i","d"," ","'">> \o id \o <<"'"," ","a","l","r","e","a","d","y"," ","e","x","i","s","t","s">>)

NotFound(id) == Failure("NotFound", <<"N","o"," ","r","u","l","e"," ","f","o","u","n","d"," ","w","i","t","h"," ","i","d",":"," ">> \o id)

InvalidExpression(err) ==
  Failure("InvalidExpression", <<"I","n","v","a","l","i","d","E","x","p","r","e","s","s","i","o","n",":"," ">> \o parserMessage(err))

FailedToEvaluate(message) ==
  Failure("EvaluationFailed", <<"F","a","i","l","e","d"," ","t","o"," ","e","v","a","l","u","a","t","e"," ","r","u","l","e",":"," ">> \o message)

TooLong(cause, what, max) ==
  Failure(cause, what \o <<" ","c","a","n","n","o","t"," ","e","x","c","e","e","d"," ">> \o numberToString(max) \o <<" ","c","h","a","r","a","c","t","e","r","s">>)

\* what the service and its repository hold
Held(r, o, c) == [rules |-> r, ruleObjects |-> o, astCache |-> c]

\* no response: the call was not made through the HTTP handler
NoResponse == [status |-> 0, error |-> "none"]

\* a call of an async method, at its start
NewCall(op, id, expression, description, record) ==
  [op |-> op, id |-> id, expression |-> expression, description |-> description,
   data |-> record, pc |-> "called", rule |-> NullRule, exists |-> FALSE,
   settled |-> Pending, outcome |-> Pending, response |-> NoResponse]

\* the call suspended at an await
Awaiting(st, call, at) == [st |-> st, call |-> [call EXCEPT !.pc = at]]

\* the call returned or threw
Ended(st, call, outcome) ==
  [st |-> st, call |-> [call EXCEPT !.pc = "done", !.outcome = outcome]]

\* MemoryRepository.getById
getById(st, id) == IF id \in DOMAIN st.rules THEN st.rules[id] ELSE NullRule

\* MemoryRepository.create(rule), called with a new Rule object
create(st, call) ==
  IF call.id \in DOMAIN st.rules
    THEN Awaiting(st, [call EXCEPT !.settled = AlreadyExists(call.id)], "awaitCreate")
    ELSE Awaiting(
           [st EXCEPT !.ruleObjects =
                        Append(@, [id |-> call.id, expression |-> call.expression,
                                   description |-> call.description]),
                      !.rules = MapSet(@, call.id, Len(st.ruleObjects) + 1)],
           [call EXCEPT !.rule = Len(st.ruleObjects) + 1,
                        !.settled = Success(Returning(Len(st.ruleObjects) + 1))],
           "awaitCreate")

\* MemoryRepository.update(rule)
update(st, call) ==
  IF st.ruleObjects[call.rule].id \notin DOMAIN st.rules
    THEN Awaiting(st, [call EXCEPT !.settled = NotFound(st.ruleObjects[call.rule].id)],
                  "awaitUpdate")
    ELSE Awaiting([st EXCEPT !.rules = MapSet(@, st.ruleObjects[call.rule].id, call.rule)],
                  [call EXCEPT !.settled = Success(Returning(call.rule))], "awaitUpdate")

\* MemoryRepository.delete(id)
delete(st, call) ==
  IF call.id \notin DOMAIN st.rules
    THEN Awaiting(st, [call EXCEPT !.settled = NotFound(call.id)], "awaitDelete")
    ELSE Awaiting([st EXCEPT !.rules = MapDelete(@, call.id)],
                  [call EXCEPT !.settled = Success(NoValue)], "awaitDelete")

\* validateAndCacheExpression once parseExpression has returned r.node
validateAndCacheExpression(st, call, r) ==
  [st EXCEPT !.astCache = MapSet(@, call.id, r.node)]

\* createRule after the exists check, parseExpression having ended as r
createRuleValidated(st, call, r) ==
  IF r.err # NoError
    THEN Ended(st, call, InvalidExpression(r.err))
    ELSE create(validateAndCacheExpression(st, call, r), call)

\* createRule up to `await this.repository.exists(id)`, its arguments trimmed
createRuleCalled(st, call, id, expression, description) ==
  IF id = <<>> THEN Ended(st, call, Failure("EmptyId", <<"R","u","l","e"," ","I","D"," ","c","a","n","n","o","t"," ","b","e"," ","e","m","p","t","y">>))
  ELSE IF Len(id) > MAX_ID_LENGTH
    THEN Ended(st, call, TooLong("IdTooLong", <<"R","u","l","e"," ","I","D">>, MAX_ID_LENGTH))
  ELSE IF expression = <<>>
    THEN Ended(st, call, Failure("EmptyExpression", <<"E","x","p","r","e","s","s","i","o","n"," ","c","a","n","n","o","t"," ","b","e"," ","e","m","p","t","y">>))
  ELSE IF Len(expression) > MAX_EXPRESSION_LENGTH
    THEN Ended(st, call, TooLong("ExpressionTooLong", <<"E","x","p","r","e","s","s","i","o","n">>, MAX_EXPRESSION_LENGTH))
  ELSE IF description # <<>> /\ Len(description) > MAX_DESCRIPTION_LENGTH
    THEN Ended(st, call, TooLong("DescriptionTooLong", <<"D","e","s","c","r","i","p","t","i","o","n">>, MAX_DESCRIPTION_LENGTH))
  ELSE Awaiting(st, [call EXCEPT !.id = id, !.expression = expression,
                                 !.description = description,
                                 !.exists = id \in DOMAIN st.rules], "awaitExists")

\* createRule from the answer of exists to `await this.repository.create(rule)`
createRuleResumed(st, call) ==
  IF call.exists
    THEN Ended(st, call, AlreadyExists(call.id))
    ELSE createRuleValidated(st, call, parse(call.expression))

\* getRule up to `await this.repository.getById(id)`
getRuleCalled(st, call) == Awaiting(st, [call EXCEPT !.rule = getById(st, call.id)], "awaitGet")

\* updateRule after its checks, parseExpression having ended as r
updateRuleValidated(st, call, r) ==
  IF r.err # NoError
    THEN Ended(st, call, InvalidExpression(r.err))
    ELSE update([validateAndCacheExpression(st, call, r) EXCEPT
                   !.ruleObjects[call.rule] =
                     [@ EXCEPT !.expression = call.expression,
                               !.description = call.description]],
                call)

\* updateRule from the rule getRule gave to `await this.repository.update(rule)`,
\* its arguments trimmed
updateRuleResumed(st, call, expression, description) ==
  IF call.rule = NullRule THEN Ended(st, call, NotFound(call.id))
  ELSE IF expression = <<>>
    THEN Ended(st, call, Failure("EmptyExpression", <<"E","x","p","r","e","s","s","i","o","n"," ","c","a","n","n","o","t"," ","b","e"," ","e","m","p","t","y">>))
  ELSE IF Len(expression) > MAX_EXPRESSION_LENGTH
    THEN Ended(st, call, TooLong("ExpressionTooLong", <<"E","x","p","r","e","s","s","i","o","n">>, MAX_EXPRESSION_LENGTH))
  ELSE IF description # <<>> /\ Len(description) > MAX_DESCRIPTION_LENGTH
    THEN Ended(st, call, TooLong("DescriptionTooLong", <<"D","e","s","c","r","i","p","t","i","o","n">>, MAX_DESCRIPTION_LENGTH))
  ELSE updateRuleValidated(st, [call EXCEPT !.expression = expression,
                                            !.description = description],
                           parse(expression))

\* deleteRule after `await this.repository.delete(id)`
deleteRuleResumed(st, call) ==
  IF call.settled.ok
    THEN Ended([st EXCEPT !.astCache = MapDelete(@, call.id)], call, Success(NoValue))
    ELSE Ended(st, call, call.settled)

\* evaluateRule once evaluator.evaluate(expr) has ended as e
evaluateRuleEvaluated(st, call, e) ==
  IF e.err # NoError
    THEN Ended(st, call, FailedToEvaluate(evaluatorMessage(e.err)))
    ELSE Ended(st, call, Success([kind |-> "EvaluationResult",
                                  ruleId |-> st.ruleObjects[call.rule].id,
                                  result |-> e.value, details |-> e.details]))

\* evaluateRule on a cache miss, parseExpression having ended as r
evaluateRuleParsed(st, call, r) ==
  IF r.err # NoError
    THEN Ended(st, call, FailedToEvaluate(parserMessage(r.err)))
    ELSE evaluateRuleEvaluated([st EXCEPT !.astCache = MapSet(@, call.id, r.node)], call,
                               evaluate(r.node, call.data))

\* evaluateRule from the rule getRule gave to its end
evaluateRuleResumed(st, call) ==
  IF call.rule = NullRule THEN Ended(st, call, NotFound(call.id))
  ELSE IF call.id \in DOMAIN st.astCache
    THEN evaluateRuleEvaluated(st, call, evaluate(st.astCache[call.id], call.data))
    ELSE evaluateRuleParsed(st, call, parse(st.ruleObjects[call.rule].expression))

\* getRule from the answer of getById to its end
getRuleResumed(st, call) ==
  IF call.rule = NullRule
    THEN Ended(st, call, NotFound(call.id))
    ELSE Ended(st, call, Success(Returning(call.rule)))

\* the last await of createRule and updateRule: the rule returned or the
\* repository's error thrown
settledReturned(st, call) == Ended(st, call, call.settled)

\* a call from its start to its first await
Started(st, call) ==
  CASE call.op = "createRule" ->
         createRuleCalled(st, call, trim(call.id), trim(call.expression),
                          trim(call.description))
    [] call.op = "deleteRule" -> delete(st, call)
    [] OTHER -> getRuleCalled(st, call)

\* a suspended call from one await to the next, or to its end
Resumed(st, call) ==
  CASE call.pc = "awaitExists" -> createRuleResumed(st, call)
    [] call.pc = "awaitGet" /\ call.op = "updateRule" ->
         updateRuleResumed(st, call, trim(call.expression), trim(call.description))
    [] call.pc = "awaitGet" /\ call.op = "evaluateRule" -> evaluateRuleResumed(st, call)
    [] call.pc = "awaitGet" /\ call.op = "getRule" -> getRuleResumed(st, call)
    [] call.pc = "awaitDelete" -> deleteRuleResumed(st, call)
    [] OTHER -> settledReturned(st, call)
(***************************************************************************)
(* The service as its callers drive it: every async call runs from one     *)
(* await to the next in one step, and calls overlap at their awaits        *)
(***************************************************************************)
IdA == <<"r","1">>

LongId == [i \in 1..(MAX_ID_LENGTH + 1) |-> "x"]

LongDescription == [i \in 1..(MAX_DESCRIPTION_LENGTH + 1) |-> "d"]

Blank == <<" ">>

ExprGt == <<"a"," ",">"," ","1">>

ExprLt == <<"a"," ","<"," ","1">>

ExprBad == <<"a"," ",">">>

DataTwo == [n \in {FieldA} |-> Num(2, 0)]

\* the arguments createRule is called with: id, expression, description
CreateArguments ==
  { <<IdA, ExprGt, <<>>>>, <<IdA, ExprLt, <<>>>>, <<IdA, ExprBad, <<>>>>,
    <<IdA, Blank, <<>>>>, <<Blank, ExprGt, <<>>>>, <<LongId, ExprGt, <<>>>> }

\* the arguments updateRule is called with
UpdateArguments ==
  { <<IdA, ExprGt, <<>>>>, <<IdA, ExprLt, <<>>>>, <<IdA, ExprBad, <<>>>>,
    <<IdA, Blank, <<>>>>, <<IdA, ExprGt, LongDescription>> }

pipeline == <<input, origin, pc, ast, error, parser, data, details, result, heap, returned,
              evaluators, lexer, tokens>>

\* a new RuleService over a new MemoryRepository
InitService ==
  /\ input = NoInput
  /\ origin = "caller"
  /\ pc = "service"
  /\ rules = <<>>
  /\ ruleObjects = <<>>
  /\ astCache = <<>>
  /\ calls = <<>>
  /\ ast = NoNode
  /\ error = NoError
  /\ parser = NoParser
  /\ data = NoData
  /\ details = NoDetails
  /\ result = NoResult
  /\ heap = <<>>
  /\ returned = <<>>
  /\ evaluators = 0
  /\ lexer = NoLexer
  /\ tokens = <<>>

\* what the service holds once a step of a call has ended as r
Serving(r) ==
  /\ rules' = r.st.rules
  /\ ruleObjects' = r.st.ruleObjects
  /\ astCache' = r.st.astCache

\* a method called: it runs to its first await
Accepting(r) ==
  /\ pc = "service"
  /\ Len(calls) < MaxRequests
  /\ Serving(r)
  /\ calls' = Append(calls, r.call)
  /\ UNCHANGED pipeline

CreateRule(id, expression, description) ==
  Accepting(Started(Held(rules, ruleObjects, astCache),
                    NewCall("createRule", id, expression, description, NoData)))

UpdateRule(id, expression, description) ==
  Accepting(Started(Held(rules, ruleObjects, astCache),
                    NewCall("updateRule", id, expression, description, NoData)))

DeleteRule(id) ==
  Accepting(Started(Held(rules, ruleObjects, astCache),
                    NewCall("deleteRule", id, <<>>, <<>>, NoData)))

EvaluateRule(id, record) ==
  Accepting(Started(Held(rules, ruleObjects, astCache),
                    NewCall("evaluateRule", id, <<>>, <<>>, record)))

\* clearCache(), which has no await
ClearCache ==
  /\ pc = "service"
  /\ Len(calls) < MaxRequests
  /\ astCache' = <<>>
  /\ calls' = Append(calls, [NewCall("clearCache", <<>>, <<>>, <<>>, NoData) EXCEPT
                               !.pc = "done", !.outcome = Success(NoValue)])
  /\ UNCHANGED <<rules, ruleObjects>>
  /\ UNCHANGED pipeline

\* call i taken up again after its await
Continuing(r, i) ==
  /\ Serving(r)
  /\ calls' = [calls EXCEPT ![i] = r.call]
  /\ UNCHANGED pipeline

Resume(i) ==
  /\ pc = "service"
  /\ calls[i].pc # "done"
  /\ Continuing(Resumed(Held(rules, ruleObjects, astCache), calls[i]), i)

NextService ==
  \/ \E a \in CreateArguments : CreateRule(a[1], a[2], a[3])
  \/ \E a \in UpdateArguments : UpdateRule(a[1], a[2], a[3])
  \/ DeleteRule(IdA)
  \/ EvaluateRule(IdA, DataTwo)
  \/ ClearCache
  \/ \E i \in 1..Len(calls) : Resume(i)

SpecService == InitService /\ [][NextService]_vars

(***************************************************************************)
(* handler/rule-handler.ts: each request handled to its response, no other *)
(* request in between                                                      *)
(***************************************************************************)
\* res.status(status).json({error, ...})
Response(status, name) == [status |-> status, error |-> name]

InvalidRequest == Response(400, "InvalidRequest")

\* handleError(error, res), error being what the service call threw
handleError(failure) ==
  IF includes(failure.message, <<"I","n","v","a","l","i","d","E","x","p","r","e","s","s","i","o","n">>)
       \/ includes(failure.message, <<"P","a","r","s","i","n","g"," ","e","r","r","o","r","s">>)
    THEN Response(400, "InvalidExpression")
  ELSE IF includes(failure.message, <<"a","l","r","e","a","d","y"," ","e","x","i","s","t","s">>)
    THEN Response(409, "RuleAlreadyExists")
  ELSE IF includes(failure.message, <<"n","o"," ","r","u","l","e"," ","f","o","u","n","d">>)
            \/ includes(failure.message, <<"N","o"," ","r","u","l","e"," ","f","o","u","n","d">>)
    THEN Response(404, "RuleNotFound")
  ELSE Response(500, "InternalError")

RECURSIVE Settled(_)
\* `await this.service.<method>(...)` with no other call in between: the call
\* resumed at each of its awaits until it has ended
Settled(r) == IF r.call.pc = "done" THEN r ELSE Settled(Resumed(r.st, r.call))

\* the request answered with `status` on success, through handleError otherwise
Answered(r, status) ==
  [r EXCEPT !.call.response =
     IF r.call.outcome.ok THEN Response(status, "none") ELSE handleError(r.call.outcome)]

\* the request answered 400 InvalidRequest without a call of the service
Refused(st, call) == [st |-> st, call |-> [call EXCEPT !.pc = "done", !.response = InvalidRequest]]

\* RuleHandler.createRule
handleCreateRule(st, call) ==
  IF call.id = <<>> \/ call.expression = <<>>
    THEN Refused(st, call)
    ELSE Answered(Settled(Started(st, call)), 201)

\* RuleHandler.updateRule
handleUpdateRule(st, call) ==
  IF call.expression = <<>>
    THEN Refused(st, call)
    ELSE Answered(Settled(Started(st, call)), 200)

\* RuleHandler.evaluateRule, body being req.body
handleEvaluateRule(st, id, body) ==
  IF "data" \notin DOMAIN body
    THEN Refused(st, NewCall("evaluateRule", id, <<>>, <<>>, NoData))
    ELSE Answered(Settled(Started(st, NewCall("evaluateRule", id, <<>>, <<>>, body.data))),
                  200)

\* RuleHandler.getRule and RuleHandler.deleteRule
handleById(st, call) == Answered(Settled(Started(st, call)), 200)

IdKeyword == <<"I","n","v","a","l","i","d","E","x","p","r","e","s","s","i","o","n">>

DataText == [n \in {FieldA} |-> Str(<<"x">>)]

RequestIds == {IdA, IdKeyword}

\* req.body of the create and update requests: id, expression
CreateBodies ==
  (RequestIds \cup {Blank, <<>>}) \X {ExprGt, ExprBad, Blank, <<>>}

UpdateBodies == RequestIds \X {ExprGt, ExprBad, <<>>}

\* req.body of the evaluate requests
EvaluateBodies == { [data |-> DataTwo], [data |-> DataText], [other |-> DataTwo] }

\* the Express app: a RuleHandler over a new RuleService
InitHandler ==
  /\ input = NoInput
  /\ origin = "caller"
  /\ pc = "handler"
  /\ rules = <<>>
  /\ ruleObjects = <<>>
  /\ astCache = <<>>
  /\ calls = <<>>
  /\ ast = NoNode
  /\ error = NoError
  /\ parser = NoParser
  /\ data = NoData
  /\ details = NoDetails
  /\ result = NoResult
  /\ heap = <<>>
  /\ returned = <<>>
  /\ evaluators = 0
  /\ lexer = NoLexer
  /\ tokens = <<>>

\* a request handled: r is what the service holds then and the call as answered
Handling(r) ==
  /\ pc = "handler"
  /\ Len(calls) < MaxRequests
  /\ Serving(r)
  /\ calls' = Append(calls, r.call)
  /\ UNCHANGED pipeline

PostRule(id, expression) ==
  Handling(handleCreateRule(Held(rules, ruleObjects, astCache),
                            NewCall("createRule", id, expression, <<>>, NoData)))

GetRule(id) ==
  Handling(handleById(Held(rules, ruleObjects, astCache),
                      NewCall("getRule", id, <<>>, <<>>, NoData)))

PutRule(id, expression) ==
  Handling(handleUpdateRule(Held(rules, ruleObjects, astCache),
                            NewCall("updateRule", id, expression, <<>>, NoData)))

DeleteRuleById(id) ==
  Handling(handleById(Held(rules, ruleObjects, astCache),
                      NewCall("deleteRule", id, <<>>, <<>>, NoData)))

PostEvaluate(id, body) ==
  Handling(handleEvaluateRule(Held(rules, ruleObjects, astCache), id, body))

NextHandler ==
  \/ \E b \in CreateBodies : PostRule(b[1], b[2])
  \/ \E id \in RequestIds : GetRule(id)
  \/ \E b \in UpdateBodies : PutRule(b[1], b[2])
  \/ \E id \in RequestIds : DeleteRuleById(id)
  \/ \E id \in RequestIds : \E body \in EvaluateBodies : PostEvaluate(id, body)

SpecHandler == InitHandler /\ [][NextHandler]_vars

(***************************************************************************)
(* Vocabulary of the properties                                            *)
(***************************************************************************)
OrderingOperators == {GREATER, LESS, GREATER_EQUAL, LESS_EQUAL}

Literals == {"NumberLiteral", "StringLiteral"}

RECURSIVE ComparisonsOf(_)
\* the comparison nodes of a tree, left to right
ComparisonsOf(t) ==
  CASE t.kind = "LogicalExpression" -> ComparisonsOf(t.left) \o ComparisonsOf(t.right)
    [] t.kind = "BinaryExpression" -> <<t>>
    [] OTHER -> <<>>

RECURSIVE OnlyLogicalOverComparisons(_)
\* every node a Logical or a Comparison, down to the comparisons
OnlyLogicalOverComparisons(t) ==
  CASE t.kind = "LogicalExpression" ->
         /\ t.operator.type \in {AND, OR}
         /\ OnlyLogicalOverComparisons(t.left)
         /\ OnlyLogicalOverComparisons(t.right)
    [] t.kind = "BinaryExpression" -> TRUE
    [] OTHER -> FALSE

\* identifier OP literal
IsFieldOpLiteral(c) ==
  /\ c.left.kind = "Identifier"
  /\ c.operator.type \in ComparisonOperators
  /\ c.right.kind \in Literals

RECURSIVE TokensOfTree(_)
\* the tokens a tree retains, in source order
TokensOfTree(t) ==
  IF t.kind \in {"LogicalExpression", "BinaryExpression"}
    THEN TokensOfTree(t.left) \o <<t.operator>> \o TokensOfTree(t.right)
    ELSE <<t.token>>

RECURSIVE Shifted(_, _)
\* the tree t with every token k characters further right
Shifted(t, k) ==
  LET moved(tok) == [tok EXCEPT !.position = @ + k]
  IN  IF t.kind \in {"LogicalExpression", "BinaryExpression"}
        THEN [t EXCEPT !.left = Shifted(t.left, k), !.operator = moved(t.operator),
                       !.right = Shifted(t.right, k)]
        ELSE [t EXCEPT !.token = moved(t.token)]

\* the tokens of the source other than parentheses and the final EOF
OperandAndOperatorTokens(inp) ==
  SelectSeq(Tokenize(inp), LAMBDA tok : tok.type \notin {LEFT_PAREN, RIGHT_PAREN, EOF})

HasParens(inp) ==
  \E i \in 1..Len(Tokenize(inp)) : Tokenize(inp)[i].type \in {LEFT_PAREN, RIGHT_PAREN}

Parsed == origin = "parser" /\ pc \in {"tree", "evaluator", "evaluated", "evaluationError"}

Evaluated == pc \in {"evaluated", "evaluationError"}

(***************************************************************************)
(* Properties                                                              *)
(***************************************************************************)

\* C1: an evaluation that raises no error has visited both operands of every
\* Logical node: the clause list returned has one entry per Comparison node of the
\* tree, in the left-to-right order of the comparisons, each with that node's text.
ClausesCoverEveryComparison ==
  pc = "evaluated" =>
    LET cs == ComparisonsOf(ast)
    IN  /\ Len(result.details) = Len(cs)
        /\ \A i \in 1..Len(cs) : result.details[i].clause = formatClause(cs[i])

\* C1 witness: two nested ANDs whose leftmost comparison is false, with three
\* comparisons of differing text all recorded
LeftFalseAndStillVisitsRight ==
  /\ pc = "evaluated"
  /\ ast.kind = "LogicalExpression"
  /\ ast.operator.type = AND
  /\ ast.left.kind = "LogicalExpression"
  /\ ast.left.operator.type = AND
  /\ Len(result.details) = 3
  /\ ~result.details[1].result
  /\ result.details[2].result
  /\ ~result.details[3].result
  /\ result.details[1].clause # result.details[2].clause

\* C2: when every comparison of a tree of Logical and Comparison nodes has an
\* Identifier on its left naming a key the data record does not have, whatever the
\* operator and the right child, no error is raised, every comparison is recorded
\* with result false and the evaluation runs to the end of the tree.
MissingFieldClauseIsFalse ==
  LET cs == ComparisonsOf(ast)
  IN  ( /\ Evaluated
        /\ OnlyLogicalOverComparisons(ast)
        /\ \A i \in 1..Len(cs) :
             cs[i].left.kind = "Identifier" /\ cs[i].left.value \notin DOMAIN data )
      => /\ pc = "evaluated"
         /\ Len(result.details) = Len(cs)
         /\ \A i \in 1..Len(cs) : ~result.details[i].result

\* C3: a tree holding a comparison with >, <, >= or <= on a present field, where
\* the data value or the literal is not a number, makes evaluate raise an error
\* and return no result, equal values included.
OrderingOnNonNumber(c) ==
  /\ IsFieldOpLiteral(c)
  /\ c.operator.type \in OrderingOperators
  /\ c.left.value \in DOMAIN data
  /\ (data[c.left.value].t # "number" \/ c.right.kind = "StringLiteral")

OrderingOnNonNumberRaises ==
  LET cs == ComparisonsOf(ast)
  IN  (Evaluated /\ \E i \in 1..Len(cs) : OrderingOnNonNumber(cs[i]))
      => pc = "evaluationError" /\ result = NoResult

\* C3 witness: a >= 'x' against a record whose a is the string x has raised
EqualStringsUnderGreaterEqualRaised ==
  /\ pc = "evaluationError"
  /\ error.kind = "NonNumericGreater"
  /\ ast.kind = "BinaryExpression"
  /\ ast.operator.type = GREATER_EQUAL
  /\ ast.right.kind = "StringLiteral"
  /\ FieldA \in DOMAIN data
  /\ data[FieldA] = Str(ast.right.value)

\* C4 as stated: evaluating a tree returned by parse in which every comparison is
\* identifier OP literal never raises an evaluation error, whatever the record.
RECURSIVE EveryComparisonFieldOpLiteral(_)
EveryComparisonFieldOpLiteral(t) ==
  CASE t.kind = "LogicalExpression" ->
         EveryComparisonFieldOpLiteral(t.left) /\ EveryComparisonFieldOpLiteral(t.right)
    [] t.kind = "BinaryExpression" -> IsFieldOpLiteral(t)
    [] OTHER -> FALSE

ParsedTreeNeverRaises ==
  (Parsed /\ EveryComparisonFieldOpLiteral(ast)) => pc # "evaluationError"

\* C4 amended: such an evaluation raises an error exactly when some comparison
\* with >, <, >= or <= has a string literal or a present field whose value is not a
\* number; with none, it returns a result.
ParsedTreeRaisesOnlyOnNonNumericOrdering ==
  LET cs == ComparisonsOf(ast)
  IN  (Parsed /\ Evaluated /\ EveryComparisonFieldOpLiteral(ast))
      => (pc = "evaluationError" <=> \E i \in 1..Len(cs) : OrderingOnNonNumber(cs[i]))

\* C4 witness: a parsed a > 1 evaluated without error against a record whose a is 0,
\* and next to it a comparison on a field the record lacks
ParsedOrderingOnZeroEvaluated ==
  /\ Parsed
  /\ pc = "evaluated"
  /\ EveryComparisonFieldOpLiteral(ast)
  /\ ast.kind = "LogicalExpression"
  /\ ast.left.kind = "BinaryExpression"
  /\ ast.left.operator.type = GREATER
  /\ FieldA \in DOMAIN data
  /\ data[FieldA] = Num(0, 0)
  /\ FieldB \notin DOMAIN data

\* C5: parse returns a tree only when it has consumed the whole token stream: the
\* parser then stands on EOF, and the tokens the tree retains are, in order, all
\* the tokens of the source other than parentheses.
ParseConsumesWholeInput ==
  Parsed =>
    /\ parser.curToken.type = EOF
    /\ TokensOfTree(ast) = OperandAndOperatorTokens(input)

\* C5 witness: a complete expression followed by another token made parse fail
TrailingTokenRejected ==
  /\ pc = "syntaxError"
  /\ error.kind = "ExpectedEndOfExpression"
  /\ parser.peekToken.type # EOF
  /\ parser.errors = <<>>

\* C6 as stated: every syntax error carries the text and the position of the
\* offending token: the first token after the complete expression for trailing
\* input, the token in operand position for a bad operand, the token found in
\* place of the close-paren for a missing close-paren.
OffendingToken ==
  CASE error.kind = "ExpectedEndOfExpression" -> parser.peekToken
    [] error.kind = "ExpectedClosingParen" -> parser.peekToken
    [] OTHER -> parser.curToken

SyntaxErrorCarriesOffendingToken ==
  pc = "syntaxError" =>
    /\ "literal" \in DOMAIN error
    /\ error.literal = OffendingToken.literal
    /\ error.position = OffendingToken.position

\* C7: a source without parentheses parses into a left-deep tree: no Logical node
\* has a Logical node as its right child, and the tree's tokens are in source order.
RECURSIVE LeftDeep(_)
LeftDeep(t) ==
  t.kind = "LogicalExpression" => (t.right.kind # "LogicalExpression" /\ LeftDeep(t.left))

UnparenthesizedChainIsLeftDeep ==
  (Parsed /\ ~HasParens(input)) =>
    /\ LeftDeep(ast)
    /\ TokensOfTree(ast) = OperandAndOperatorTokens(input)

\* C7 witness: three comparisons joined by two logical operators, parsed
ThreeComparisonChainParsed ==
  /\ Parsed
  /\ ~HasParens(input)
  /\ ast.kind = "LogicalExpression"
  /\ ast.left.kind = "LogicalExpression"
  /\ ast.left.left.kind = "BinaryExpression"
  /\ ast.left.right.kind = "BinaryExpression"
  /\ ast.right.kind = "BinaryExpression"

\* C8 as stated: in a source without parentheses AND is grouped before OR, so no
\* And node has an Or node as an operand.
RECURSIVE NoOrUnderAnd(_)
NoOrUnderAnd(t) ==
  t.kind = "LogicalExpression" =>
    /\ NoOrUnderAnd(t.left)
    /\ NoOrUnderAnd(t.right)
    /\ t.operator.type = AND =>
         \A c \in {t.left, t.right} :
           c.kind = "LogicalExpression" => c.operator.type # OR

AndGroupedBeforeOr == (Parsed /\ ~HasParens(input)) => NoOrUnderAnd(ast)

\* C9: a parenthesized group is one operand of the surrounding operator and
\* leaves no node of its own: for a source s that parses to t, `( s )` parses to t,
\* `( s ) AND a > 1` to Logical(And, t, a > 1) and `a > 1 AND ( s )` to
\* Logical(And, a > 1, t), the tokens standing at their places in the new source.
NodeKinds ==
  {"LogicalExpression", "BinaryExpression", "Identifier", "NumberLiteral", "StringLiteral"}

RECURSIVE OnlyKnownNodes(_)
OnlyKnownNodes(t) ==
  /\ t.kind \in NodeKinds
  /\ t.kind \in {"LogicalExpression", "BinaryExpression"} =>
       OnlyKnownNodes(t.left) /\ OnlyKnownNodes(t.right)

AndText == <<"A","N","D">>

GroupIsOneOperand ==
  Parsed =>
    LET wrapped == <<"(", " ">> \o input \o <<" ", ")">>
        asLeft == parse(wrapped \o <<" ">> \o AndText \o <<" ">> \o ClauseP)
        asRight == parse(ClauseP \o <<" ">> \o AndText \o <<" ">> \o wrapped)
        clauseP == parse(ClauseP).node
        andAt(k) == Token(AND, AndText, k)
    IN  /\ OnlyKnownNodes(ast)
        /\ parse(wrapped).err = NoError
        /\ parse(wrapped).node = Shifted(ast, 2)
        /\ asLeft.err = NoError
        /\ asLeft.node = LogicalExpression(Shifted(ast, 2), andAt(Len(wrapped) + 1),
                                           Shifted(clauseP, Len(wrapped) + 5))
        /\ asRight.err = NoError
        /\ asRight.node = LogicalExpression(clauseP, andAt(Len(ClauseP) + 1),
                                            Shifted(ast, Len(ClauseP) + 7))

\* C9 witness: the source ( a > 1 OR b = 'x' ) AND a > 1 parsed to
\* Logical(And, Logical(Or, a > 1, b = 'x'), a > 1)
GroupedOrUnderAndParsed ==
  /\ Parsed
  /\ input = GroupPQ \o <<" ">> \o AndText \o <<" ">> \o ClauseP
  /\ ast.kind = "LogicalExpression"
  /\ ast.operator.type = AND
  /\ ast.left.kind = "LogicalExpression"
  /\ ast.left.operator.type = OR
  /\ ast.right.kind = "BinaryExpression"

\* C10: for a present field, = is true exactly when the data value and the literal
\* are numbers of the same numeric value or strings of the same characters, and !=
\* is its negation; neither raises.
SameNumberOrSameString(v, literal) ==
  \/ /\ v.t = "number"
     /\ literal.kind = "NumberLiteral"
     /\ v.m * Pow10(literal.value.e) = literal.value.m * Pow10(v.e)
  \/ /\ v.t = "string"
     /\ literal.kind = "StringLiteral"
     /\ v.s = literal.value

NullFieldClauseIsFalse ==
  LET cs == ComparisonsOf(ast)
  IN  ( /\ Evaluated
        /\ OnlyLogicalOverComparisons(ast)
        /\ \A i \in 1..Len(cs) :
             /\ IsFieldOpLiteral(cs[i])
             /\ cs[i].left.value \in DOMAIN data
             /\ data[cs[i].left.value] = JsNull )
      => /\ pc = "evaluated"
         /\ Len(result.details) = Len(cs)
         /\ \A i \in 1..Len(cs) : ~result.details[i].result

\* C12: for a field holding a number d and a number literal v, the clause result
\* of `field OP v` is d OP v for each of the six operators, and no error is raised;
\* >= is true exactly when > or = is, and <= exactly when < or = is.
Arithmetic(d, operator, v) ==
  CASE operator = EQUAL -> d.m * Pow10(v.e) = v.m * Pow10(d.e)
    [] operator = NOT_EQUAL -> d.m * Pow10(v.e) # v.m * Pow10(d.e)
    [] operator = GREATER -> d.m * Pow10(v.e) > v.m * Pow10(d.e)
    [] operator = LESS -> d.m * Pow10(v.e) < v.m * Pow10(d.e)
    [] operator = GREATER_EQUAL -> d.m * Pow10(v.e) >= v.m * Pow10(d.e)
    [] operator = LESS_EQUAL -> d.m * Pow10(v.e) <= v.m * Pow10(d.e)

NumberFieldAgainstNumberLiteral ==
  /\ ast.kind = "BinaryExpression"
  /\ IsFieldOpLiteral(ast)
  /\ ast.right.kind = "NumberLiteral"
  /\ ast.left.value \in DOMAIN data
  /\ data[ast.left.value].t = "number"

NumericClauseIsArithmetic ==
  (Evaluated /\ NumberFieldAgainstNumberLiteral) =>
    /\ pc = "evaluated"
    /\ result.result = Arithmetic(data[ast.left.value], ast.operator.type, ast.right.value)
    /\ result.details = <<[clause |-> formatClause(ast), result |-> result.result]>>
    /\ compare(data[ast.left.value], GREATER_EQUAL, ast.right.value).value
         = ( \/ compare(data[ast.left.value], GREATER, ast.right.value).value
             \/ compare(data[ast.left.value], EQUAL, ast.right.value).value )
    /\ compare(data[ast.left.value], LESS_EQUAL, ast.right.value).value
         = ( \/ compare(data[ast.left.value], LESS, ast.right.value).value
             \/ compare(data[ast.left.value], EQUAL, ast.right.value).value )

\* C12 witness: a < 1.0 evaluated to false against a record whose a is 1.5
DecimalNotLessThanOne ==
  /\ pc = "evaluated"
  /\ NumberFieldAgainstNumberLiteral
  /\ ast.operator.type = LESS
  /\ ast.right.token.literal = <<"1", ".", "0">>
  /\ data[ast.left.value] = Num(15, 1)
  /\ ~result.result

\* C13: the result of a Logical node is the conjunction (AND) or the disjunction
\* (OR) of its operands' results: the overall result of an evaluation that raised
\* no error is the tree's boolean formula over the clause results recorded, taken
\* in order.
RECURSIVE FormulaOver(_, _)
\* the value of tree t over the clause results it consumes, and the results left
FormulaOver(t, clauses) ==
  IF t.kind = "LogicalExpression"
    THEN LET l == FormulaOver(t.left, clauses)
             r == FormulaOver(t.right, l.rest)
         IN  [value |-> IF t.operator.type = AND THEN l.value /\ r.value
                                                 ELSE l.value \/ r.value,
              rest |-> r.rest]
    ELSE [value |-> Head(clauses).result, rest |-> Tail(clauses)]

ResultIsFormulaOfClauses ==
  pc = "evaluated" =>
    /\ FormulaOver(ast, result.details).rest = <<>>
    /\ result.result = FormulaOver(ast, result.details).value

\* C13 witness: (true OR false) AND true evaluated to true
OrUnderAndEvaluatedTrue ==
  /\ pc = "evaluated"
  /\ ast.kind = "LogicalExpression"
  /\ ast.operator.type = AND
  /\ ast.left.kind = "LogicalExpression"
  /\ ast.left.operator.type = OR
  /\ Len(result.details) = 3
  /\ result.details[1].result
  /\ ~result.details[2].result
  /\ result.details[3].result
  /\ result.result

\* C14: on one Evaluator, every call of evaluate on a tree returns what a new
\* Evaluator on the same record returns for it (the same overall result, the same
\* clause list), also after a call that raised an error and left clauses behind,
\* and the object a call returned still holds that result after later calls.
EvaluateIsRepeatable ==
  /\ \A i \in 1..Len(returned) :
       /\ evaluate(returned[i].expr, data).err = NoError
       /\ returned[i].result = evaluate(returned[i].expr, data).value
       /\ heap[returned[i].details] = evaluate(returned[i].expr, data).details
  /\ pc = "evaluated" =>
       result = [result |-> evaluate(ast, data).value,
                 details |-> evaluate(ast, data).details]
  /\ pc = "evaluationError" => error = evaluate(ast, data).err

\* C14 witness: evaluate(ast) returned a result with clauses on an evaluator whose
\* previous call raised an error after recording a clause
EvaluatedAfterRaisingCall ==
  /\ pc = "evaluated"
  /\ Len(heap) = 3
  /\ heap[2] # <<>>
  /\ heap[3] # <<>>
  /\ returned = <<[expr |-> ast, result |-> result.result, details |-> 3]>>

\* C15: a call of evaluate, returning or raising, leaves the tree and the data
\* record as they were; so whatever evaluators other callers made on the shared
\* tree before, with whatever records and calls, a caller's evaluate(ast) returns
\* what a new Evaluator on its record returns for the tree as parsed.
EvaluateCallStep == Len(heap) >= 1 /\ Len(heap') = Len(heap) + 1

EvaluateLeavesTreeAndData ==
  /\ [][EvaluateCallStep => (ast' = ast /\ data' = data)]_vars
  /\ []((origin = "parser" /\ pc = "evaluated") =>
          result = [result |-> evaluate(parse(input).node, data).value,
                    details |-> evaluate(parse(input).node, data).details])
  /\ []((origin = "parser" /\ pc = "evaluationError") =>
          error = evaluate(parse(input).node, data).err)

\* C15 witness: a second caller's evaluator, made after the first caller's calls,
\* returned a result for the shared parsed tree
SecondCallerEvaluated ==
  /\ origin = "parser"
  /\ pc = "evaluated"
  /\ evaluators = 2
  /\ Len(heap) = 2
  /\ FieldA \in DOMAIN data
  /\ ast.kind = "LogicalExpression"
  /\ result.details # <<>>

\* C16 as stated: every comparison `field OP value` written with single spaces, the
\* exact operator symbol and a number literal or a single-quoted string parses,
\* and formatting the Comparison node parsed gives back the source text.
FieldLexemes == {FieldA, ProtoField}

OperatorLexemes == {<<"=">>, <<"!","=">>, <<">">>, <<"<">>, <<">","=">>, <<"<","=">>}

LiteralLexemes == {<<"1">>, <<"1",".","0">>, <<"'","x","'">>, <<"'","1","'">>}

IsCanonicalComparison(inp) ==
  \E field \in FieldLexemes, operator \in OperatorLexemes, literal \in LiteralLexemes :
    inp = Join(<<field, operator, literal>>)

CanonicalComparisonRoundTrips ==
  (origin = "parser" /\ pc # "source" /\ IsCanonicalComparison(input)) =>
    /\ Parsed
    /\ ast.kind = "BinaryExpression"
    /\ formatClause(ast) = input

\* C17: parse fails with a syntax error whenever a token standing where an operand
\* is expected (the first token, the token after a comparison or logical operator,
\* the token after a left parenthesis) is not an identifier, a number, a string or
\* a left parenthesis; the end of input is such a token.
OperandStarts == {IDENTIFIER, NUMBER, STRING_T, LEFT_PAREN}

OperandExpectedAt(toks, i) ==
  \/ i = 1
  \/ toks[i - 1].type \in ComparisonOperators \cup {AND, OR, LEFT_PAREN}

HasBadOperand(toks) ==
  \E i \in 1..Len(toks) : OperandExpectedAt(toks, i) /\ toks[i].type \notin OperandStarts

BadOperandRejected ==
  (origin = "parser" /\ pc # "source" /\ HasBadOperand(Tokenize(input)))
    => (pc = "syntaxError" /\ ast = NoNode)

\* C17 witness: a > 1 AND was rejected at the end of input, where the right operand
\* of AND should stand
OperandMissingAfterAnd ==
  /\ pc = "syntaxError"
  /\ input = ClauseP \o <<" ">> \o AndText
  /\ error.kind = "UnexpectedToken"
  /\ parser.curToken.type = EOF

\* C18: parse returns a tree only for a source whose parentheses are balanced and
\* properly nested: a source with a left parenthesis that is never closed or with
\* a right parenthesis that closes nothing is rejected with a syntax error.
RECURSIVE ParensBalanced(_, _)
\* the tokens close every parenthesis they open, depth being those open before
ParensBalanced(toks, depth) ==
  IF toks = <<>>
    THEN depth = 0
    ELSE CASE Head(toks).type = LEFT_PAREN -> ParensBalanced(Tail(toks), depth + 1)
           [] Head(toks).type = RIGHT_PAREN ->
                depth > 0 /\ ParensBalanced(Tail(toks), depth - 1)
           [] OTHER -> ParensBalanced(Tail(toks), depth)

UnbalancedParensRejected ==
  (origin = "parser" /\ pc # "source" /\ ~ParensBalanced(Tokenize(input), 0))
    => (pc = "syntaxError" /\ ast = NoNode)

\* C18 witness: ( a > 1 was rejected for its missing right parenthesis
UnclosedGroupRejected ==
  /\ pc = "syntaxError"
  /\ input = <<"(", " ">> \o ClauseP
  /\ error.kind = "ExpectedClosingParen"
  /\ parser.peekToken.type = EOF

\* C19: sources that are well-formed but meaningless are accepted by parse and
\* rejected by evaluate: `5 > 3`, `a = 1 = 2`, `age` and `a AND b` parse, and a
\* parsed tree with a comparison whose left operand is no identifier, or with a
\* leaf where a comparison should stand, raises an evaluation error for every
\* record and returns no result.
RECURSIVE SemanticallyInvalid(_)
SemanticallyInvalid(t) ==
  CASE t.kind = "LogicalExpression" ->
         SemanticallyInvalid(t.left) \/ SemanticallyInvalid(t.right)
    [] t.kind = "BinaryExpression" -> t.left.kind # "Identifier"
    [] OTHER -> TRUE

InvalidTreeParsesAndRaises ==
  /\ (origin = "parser" /\ pc # "source" /\ input \in InvalidSources)
       => (Parsed /\ SemanticallyInvalid(ast))
  /\ (Parsed /\ Evaluated /\ SemanticallyInvalid(ast))
       => (pc = "evaluationError" /\ result = NoResult)

\* C19 witness: a = 1 = 2 parsed to the comparison (a = 1) = 2, whose evaluation
\* against a record holding a raised an error
ChainedComparisonRaised ==
  /\ pc = "evaluationError"
  /\ input = <<"a"," ","="," ","1"," ","="," ","2">>
  /\ ast.kind = "BinaryExpression"
  /\ ast.left.kind = "BinaryExpression"
  /\ error.kind = "LeftNotIdentifier"
  /\ FieldA \in DOMAIN data

\* C20: successive nextToken calls on one Lexer return tokens other than EOF at
\* most as many as the source has characters, then an EOF token, and from then
\* on every call returns an EOF token.
AtEnd(toks) == toks # <<>> /\ toks[Len(toks)].type = EOF

TokensBeforeEnd(toks) == SelectSeq(toks, LAMBDA tok : tok.type # EOF)

LexerEndsAndStaysAtEnd ==
  /\ [](Len(TokensBeforeEnd(tokens)) <= Len(input))
  /\ (lexer # NoLexer) ~> AtEnd(tokens)
  /\ [][AtEnd(tokens) => AtEnd(tokens')]_vars

\* C20 witness: after three tokens a second call at the end of the source returned
\* EOF again
EndOfInputReturnedTwice ==
  /\ pc = "lexer"
  /\ Len(tokens) = 5
  /\ tokens[3].type # EOF
  /\ tokens[4].type = EOF
  /\ tokens[5].type = EOF
  /\ tokens[5].position > tokens[4].position

(***************************************************************************)
(* The lexer's tokens against the lexical grammar                          *)
(***************************************************************************)
WordChars == Letters \cup Digits \cup {"_"}

RECURSIVE WordEnd(_, _)
\* where the run of word characters that covers offset i of inp ends
WordEnd(inp, i) ==
  IF i < Len(inp) /\ inp[i + 1] \in WordChars THEN WordEnd(inp, i + 1) ELSE i

\* the kind the lexical grammar gives a word
WordKind(w) ==
  IF w = <<"A","N","D">> THEN AND ELSE IF w = <<"O","R">> THEN OR ELSE IDENTIFIER

\* tok begins at a character of inp that is in chars
BeginsWith(inp, tok, chars) == tok.position < Len(inp) /\ inp[tok.position + 1] \in chars

\* the number of quote characters among the first n characters of inp
QuotesBefore(inp, n) == Cardinality({ j \in 1..n : inp[j] = "'" })

\* offset i of inp is where a word begins outside a string literal
WordBeginsAt(inp, i) ==
  /\ inp[i + 1] \in Letters
  /\ i > 0 => inp[i] \notin WordChars
  /\ QuotesBefore(inp, i) % 2 = 0

\* C21: every maximal run [A-Za-z][A-Za-z0-9_]* is lexed as one token, whose kind
\* is And for exactly AND, Or for exactly OR and Identifier for every other word.
WordsAreKeywordsOrIdentifiers ==
  (lexer # NoLexer /\ AtEnd(tokens)) =>
    /\ \A i \in 1..Len(tokens) :
         BeginsWith(input, tokens[i], Letters) =>
           /\ tokens[i].literal =
                Slice(input, tokens[i].position, WordEnd(input, tokens[i].position))
           /\ tokens[i].type = WordKind(tokens[i].literal)
    /\ \A j \in 0..(Len(input) - 1) :
         WordBeginsAt(input, j) => \E i \in 1..Len(tokens) : tokens[i].position = j

RECURSIVE DigitRunEnd(_, _)
\* where the run of digits that covers offset i of inp ends
DigitRunEnd(inp, i) ==
  IF i < Len(inp) /\ inp[i + 1] \in Digits THEN DigitRunEnd(inp, i + 1) ELSE i

\* where digits, then a point and at least one digit if they follow, end
DecimalEnd(inp, d) ==
  IF d + 1 < Len(inp) /\ inp[d + 1] = "." /\ inp[d + 2] \in Digits
    THEN DigitRunEnd(inp, d + 1)
    ELSE d

NumberEnd(inp, i) == DecimalEnd(inp, DigitRunEnd(inp, i))

Unterminated(inp) == QuotesBefore(inp, Len(inp)) % 2 = 1

\* the kinds and texts of toks, without their positions
KindsAndTexts(toks) == [i \in 1..Len(toks) |-> <<toks[i].type, toks[i].literal>>]

\* toks up to and including its first EOF token
UpToEnd(toks) == SubSeq(toks, 1, Len(TokensBeforeEnd(toks)) + 1)

\* C23: an unterminated string literal is not reported: the lexer returns a String
\* token holding every character after the opening quote, then EOF, and the kinds
\* and texts of the tokens are those of the same text with the quote closed.
UnterminatedStringIsNotReported ==
  (lexer # NoLexer /\ AtEnd(tokens) /\ Unterminated(input)) =>
    /\ KindsAndTexts(UpToEnd(tokens)) = KindsAndTexts(Tokenize(input \o <<"'">>))
    /\ Len(TokensBeforeEnd(tokens)) >= 1
    /\ tokens[Len(TokensBeforeEnd(tokens))].type = STRING_T
    /\ input[tokens[Len(TokensBeforeEnd(tokens))].position + 1] = "'"
    /\ tokens[Len(TokensBeforeEnd(tokens))].literal =
         Slice(input, tokens[Len(TokensBeforeEnd(tokens))].position + 1, Len(input))

\* C23 witness: x = 'abc was lexed to its end as Identifier, Equal, String(abc), EOF
UnclosedLiteralLexedAsString ==
  /\ input = <<"x"," ","="," ","'","a","b","c">>
  /\ Len(tokens) = 4
  /\ tokens[1].type = IDENTIFIER
  /\ tokens[2].type = EQUAL
  /\ tokens[3] = Token(STRING_T, <<"a","b","c">>, 4)
  /\ tokens[4].type = EOF

\* the tokens of inp of the kind Illegal
IllegalAmong(toks) == { toks[i] : i \in { j \in 1..Len(toks) : toks[j].type = ILLEGAL } }

IllegalTokens(inp) == IllegalAmong(Tokenize(inp))

\* characters that no case of the lexer accepts anywhere outside a string literal
NeverSupported == {"-", "\"", "#", "@"}

\* C29: the lexer reports an unsupported character only as an Illegal token, and
\* parse never succeeds on an input for which the lexer produces an Illegal token.
IllegalTokenRejected ==
  (origin = "parser" /\ pc # "source") =>
    /\ \A tok \in IllegalTokens(input) :
         /\ tok.literal = <<input[tok.position + 1]>>
         /\ input[tok.position + 1] \notin Letters \cup Digits \cup {"=", ">", "<", "(", ")", "'", " "}
    /\ \A j \in 0..(Len(input) - 1) :
         (input[j + 1] \in NeverSupported /\ QuotesBefore(input, j) % 2 = 0)
           => Token(ILLEGAL, <<input[j + 1]>>, j) \in IllegalTokens(input)
    /\ IllegalTokens(input) # {} => (pc = "syntaxError" /\ ast = NoNode)

\* C29 witness: a > 1 ! was rejected at the Illegal token that follows a whole
\* comparison
IllegalAfterComparisonRejected ==
  /\ input = <<"a"," ",">"," ","1"," ","!">>
  /\ pc = "syntaxError"
  /\ error.kind = "ExpectedEndOfExpression"
  /\ parser.peekToken = Token(ILLEGAL, <<"!">>, 6)

\* a Lexer that stands at offset i of inp
LexerAt(inp, i) == readChar(inp, [ch |-> NullCh, position |-> 0, readPosition |-> i])

TokenSet(toks) == { toks[i] : i \in 1..Len(toks) }

\* the EOF token a nextToken call returns after the one that ended toks
EndAgain(toks) == Token(EOF, <<>>, toks[Len(toks)].position + 1)

\* C30: parse terminates on every input: a nextToken call on a lexer that is not at
\* the end of input consumes at least one character, the input has at most as many
\* tokens as characters before its EOF, and the parser, which calls nextToken before
\* each loop iteration and each recursive call, has asked for at most one token
\* beyond the first EOF when parse returns or raises.
ParseStepsBounded ==
  (origin = "parser" /\ pc # "source") =>
    /\ \A i \in 0..(Len(input) - 1) :
         nextToken(input, LexerAt(input, i)).lexer.position > i
    /\ Len(Tokenize(input)) <= Len(input) + 1
    /\ parser.curToken \in TokenSet(Tokenize(input))
    /\ parser.peekToken \in TokenSet(Tokenize(input)) \cup {EndAgain(Tokenize(input))}
    /\ pc = "syntaxError" \/ Parsed

\* C30 witness: on a > the parser went on to the end of input for the right operand
\* and parse raised there
OperandSoughtAtEnd ==
  /\ input = <<"a"," ",">">>
  /\ pc = "syntaxError"
  /\ parser.curToken = Token(EOF, <<>>, 3)
  /\ parser.peekToken = Token(EOF, <<>>, 4)

(***************************************************************************)
(* The service's calls against what it stores and caches                   *)
(***************************************************************************)
Done(i) == calls[i].pc = "done"

Quiescent == \A i \in 1..Len(calls) : Done(i)

\* call i is a createRule call for id whose expression the parser accepts
IsValidCreate(i, id) ==
  /\ calls[i].op = "createRule"
  /\ trim(calls[i].id) = id
  /\ trim(calls[i].expression) # <<>>
  /\ parse(trim(calls[i].expression)).err = NoError

\* the repository holds for id a rule of this expression, and the cache its parse
StoredAndCachedAs(id, expression) ==
  /\ id \in DOMAIN rules
  /\ ruleObjects[rules[id]].expression = expression
  /\ id \in DOMAIN astCache
  /\ astCache[id] = parse(expression).node

\* C25: among createRule calls for one id that overlap at their awaits, at most one
\* succeeds, every other one fails with an 'already exists' error, and the stored
\* rule and the cached AST are as the successful call set them.
OneCreateRuleWins ==
  (Quiescent /\ \A k \in 1..Len(calls) : calls[k].op = "createRule") =>
    \A i \in 1..Len(calls) : \A j \in 1..Len(calls) \ {i} :
      (IsValidCreate(i, IdA) /\ IsValidCreate(j, IdA) /\ calls[i].outcome.ok) =>
        /\ ~calls[j].outcome.ok
        /\ includes(calls[j].outcome.message, <<"a","l","r","e","a","d","y"," ","e","x","i","s","t","s">>)
        /\ StoredAndCachedAs(IdA, calls[i].expression)

\* getCacheSize()
getCacheSize == Cardinality(DOMAIN astCache)

\* C26: deleteRule removes the rule and its cached AST: whenever no call is in flight
\* the cached ids are among the stored rule ids, and getCacheSize is at most the
\* number of stored rules, also when deleteRule overlapped with evaluateRule or
\* updateRule on the same id.
CachedIdsAreStored ==
  Quiescent =>
    /\ DOMAIN astCache \subseteq DOMAIN rules
    /\ getCacheSize <= Cardinality(DOMAIN rules)

\* the rules the repository holds, by id
StoredRules(r, o) == [id \in DOMAIN r |-> o[r[id]]]

\* call c, of createRule or updateRule, has failed or is bound to fail at its next
\* resumption, the repository having rejected it
HasFailed(c) ==
  /\ c.op \in {"createRule", "updateRule"}
  /\ \/ c.pc = "done" /\ ~c.outcome.ok
     \/ c.pc # "done" /\ c.settled.cause \notin {"none", "pending"}

\* C27: a createRule or updateRule call that fails changes nothing: no step of such
\* a call changes the stored rules or the AST cache.
FailedCallChangesNothing ==
  [][\A i \in 1..Len(calls') :
       ((i > Len(calls) \/ calls'[i] # calls[i]) /\ HasFailed(calls'[i])) =>
         /\ StoredRules(rules', ruleObjects') = StoredRules(rules, ruleObjects)
         /\ astCache' = astCache]_vars

\* C28: after any interleaving of createRule, updateRule, deleteRule, evaluateRule
\* and clearCache calls, a cached AST for an id is the parse of that id's stored
\* expression, so evaluating it gives what the stored expression parsed afresh gives.
CacheIsNeverStale ==
  Quiescent =>
    \A id \in DOMAIN astCache \cap DOMAIN rules :
      /\ astCache[id] = parse(ruleObjects[rules[id]].expression).node
      /\ evaluate(astCache[id], DataTwo) =
           evaluate(parse(ruleObjects[rules[id]].expression).node, DataTwo)

\* the request of call c lacks a field its handler requires
RequiredFieldMissing(c) ==
  \/ c.op = "createRule" /\ (c.id = <<>> \/ c.expression = <<>>)
  \/ c.op = "updateRule" /\ c.expression = <<>>
  \/ c.op = "evaluateRule" /\ c.pc = "done" /\ c.outcome.cause = "pending"

\* C24: every failed request is answered with the status of its cause, for every
\* rule id and expression text: a syntax error gives 400 InvalidExpression, a
\* missing required field 400 InvalidRequest, an unknown rule id 404 RuleNotFound,
\* a duplicate id on create 409 RuleAlreadyExists, and 500 InternalError is given
\* for none of these.
FailureAnsweredByItsCause ==
  pc = "handler" =>
    \A i \in 1..Len(calls) :
      /\ RequiredFieldMissing(calls[i]) => calls[i].response = InvalidRequest
      /\ calls[i].outcome.cause = "InvalidExpression"
           => calls[i].response = Response(400, "InvalidExpression")
      /\ calls[i].outcome.cause = "NotFound"
           => calls[i].response = Response(404, "RuleNotFound")
      /\ calls[i].outcome.cause = "AlreadyExists"
           => calls[i].response = Response(409, "RuleAlreadyExists")
      /\ calls[i].response.status = 500
           => calls[i].outcome.cause \notin {"InvalidExpression", "NotFound", "AlreadyExists"}

====
